---- MODULE Spec2Model ----
(***************************************************************************)
(* Tekus provider/service frontend: the shared axios client (lib/api.ts),  *)
(* the summary page, the providers list, the edit-provider page and the    *)
(* new-provider page, as one state machine.  Network requests are records  *)
(* in flight; the backend answers each of them with success or failure in  *)
(* any order.                                                              *)
(***************************************************************************)
EXTENDS Integers, Sequences, FiniteSets, TLC

\* ------------------------------------------------------------------ bounds
\* number of user actions / page mounts that issue requests in one behaviour
MaxTriggers == 3
\* longest services / attributes array the form editor is driven to
MaxEntries == 3
\* longest record handed to the chart transformation
MaxChartKeys == 3
\* largest count in a summary record
MaxCount == 2

\* ------------------------------------------------------- values and data
\* JavaScript null / undefined
Null == "<null>"
\* a request without Authorization header
NoHeader == "<none>"
\* the only storage key lib/api.ts uses
AuthTokenKey == "auth_token"

\* truthiness of a string-or-null value, as in `if (token)` and `a || b`
Truthy(v) == v # Null /\ v # ""

\* Country codes are sequences of characters so that trim and toUpperCase
\* are computed, not assumed.
CO == <<"C", "O">>
US == <<"U", "S">>
MX == <<"M", "X">>

\* what the backend answers on GET /Country
CountryList ==
  << [code |-> CO, name |-> "Colombia", region |-> "Americas"],
     [code |-> US, name |-> "United States", region |-> "Americas"] >>

\* what the backend answers on GET /Summary
SummaryResponse ==
  [providersByCountry |-> << <<CO, 2>>, <<US, 1>> >>,
   servicesByCountry |-> << <<US, 1>>, <<CO, 2>>, <<MX, 2>> >>]

\* provider ids known to the backend, in list order
ProviderIds == <<"p1", "p2", "p3">>

\* pageSize the list page asks for
PageSize == 2

\* Service and CustomAttribute records as the backend returns them (lib/types.ts)
ServiceOf(pid, sid, name, rate, codes) ==
  [id |-> sid, providerId |-> pid, name |-> name, hourlyRate |-> rate,
   countries |-> [j \in 1..Len(codes) |->
                    [id |-> sid \o "-c", serviceId |-> sid, countryCode |-> codes[j]]]]

AttributeOf(pid, aid, key, value) ==
  [id |-> aid, providerId |-> pid, key |-> key, value |-> value]

\* a country code as a fixed-width column returns it
COPadded == <<"C", "O", " ">>

\* the Provider records of the backend: p1 has two services, p2 has neither
\* services nor attributes, p3 has one service (its country code padded)
\* and two attributes
ProviderOf(id) ==
  [id |-> id, nit |-> "900" \o id, name |-> "Acme " \o id,
   email |-> id \o "@acme.co",
   services |->
     IF id = "p1"
     THEN << ServiceOf(id, "s1", "Hosting", 25, <<CO, US>>),
             ServiceOf(id, "s2", "Design", 40, <<US>>) >>
     ELSE IF id = "p2" THEN <<>>
     ELSE << ServiceOf(id, "s3", "Audit", 10, <<COPadded>>) >>,
   customAttributes |->
     IF id = "p1" THEN << AttributeOf(id, "a1", "tier", "gold") >>
     ELSE IF id = "p2" THEN <<>>
     ELSE << AttributeOf(id, "a2", "tier", "basic"),
             AttributeOf(id, "a3", "zone", "north") >>]

\* ------------------------------------------------------------- variables
VARIABLES
  storage,            \* window.localStorage: function key -> value
  storageKeysTouched, \* history: every key passed to setItem / removeItem
  lastTokenEvent,     \* history: last event that wrote or removed auth_token
  location,           \* route requested by router.push / window.location.href
  hardNav,            \* a window.location.href assignment is pending (full reload)
  mounted,            \* the page component currently mounted
  inst,               \* identity of the mounted component instance
  providerId,         \* useParams().id of the edit page
  summary,            \* SummaryPage state
  providers,          \* ProvidersPage state
  edit,               \* EditProviderPage state
  newp,               \* NewProviderPage state
  inflight,           \* requests sent and not yet answered
  sent,               \* history: every request ever sent
  triggers,           \* history: the user actions / mounts that issued requests
  lastOp,             \* history: the operation that produced the current state
  edits,              \* number of form input events so far
  chart,              \* SummaryPage render output (providersChartData, servicesChartData)
  guard               \* AuthGuard state, for a page wrapped in it

vars ==
  <<storage, storageKeysTouched, lastTokenEvent, location, hardNav, mounted,
    inst, providerId, summary, providers, edit, newp, inflight, sent,
    triggers, lastOp, edits, chart, guard>>

\* ------------------------------------------------------------ lib/api.ts
getItem(store, key) == IF key \in DOMAIN store THEN store[key] ELSE Null

setItem(store, key, value) ==
  [k \in DOMAIN store \cup {key} |-> IF k = key THEN value ELSE store[k]]

removeItem(store, key) == [k \in DOMAIN store \ {key} |-> store[k]]

EmptyStorage == [k \in {} |-> ""]

\* RequestInterceptor without the `if (token)` test
RequestInterceptorUnconditional(store) ==
  "Bearer " \o getItem(store, AuthTokenKey)

\* request interceptor: the Authorization header put on an outgoing request
RequestInterceptor(store) ==
  LET token == getItem(store, AuthTokenKey)
  IN  IF Truthy(token) THEN "Bearer " \o token ELSE NoHeader

\* authService.isAuthenticated
isAuthenticated == Truthy(getItem(storage, AuthTokenKey))

\* a request as it leaves the api client; `stored` remembers the storage
\* value at send time
Request(n, t, i, pg, op, method, path, params, body) ==
  [rid |-> Cardinality(sent) + n, trigger |-> t, inst |-> i, page |-> pg,
   op |-> op, method |-> method, path |-> path, params |-> params,
   body |-> body, auth |-> RequestInterceptor(storage),
   stored |-> getItem(storage, AuthTokenKey)]

\* the backend's possible failures: no response at all (status 0, which the
\* code treats like any response without a message), 401 with an empty
\* message and 500 with a non-empty message in the body
FailureKinds ==
  { <<0, Null>>, <<401, "">>, <<500, "NIT already registered">> }

Failures ==
  { [ok |-> FALSE, status |-> k[1], message |-> k[2], data |-> <<>>] :
      k \in FailureKinds }

\* the failures a fetch or a login is answered with: neither a fetch's
\* catch block nor authService.login reads the status or the body of the
\* error, so one failure that is not a 401 stands for all of them
FetchFailures == {f \in Failures : f.status # 500}

Ok(d) == [ok |-> TRUE, status |-> 200, message |-> Null, data |-> d]

\* setState of an unmounted component is a no-op: a handler changes page
\* state only while the instance that sent the request is still mounted
Alive(r) == mounted = r.page /\ inst = r.inst

Op(kind) ==
  [kind |-> kind, rid |-> 0, ok |-> TRUE, status |-> 0, message |-> Null,
   alive |-> TRUE, index |-> 0]

Completion(kind, r, res) ==
  [kind |-> kind, rid |-> r.rid, ok |-> res.ok, status |-> res.status,
   message |-> res.message, alive |-> Alive(r), index |-> 0]

\* the browser state the api module acts on
Browser ==
  [storage |-> storage, touched |-> storageKeysTouched,
   lastTokenEvent |-> lastTokenEvent, location |-> location,
   hardNav |-> hardNav]

SetBrowser(b) ==
  /\ storage' = b.storage
  /\ storageKeysTouched' = b.touched
  /\ lastTokenEvent' = b.lastTokenEvent
  /\ location' = b.location
  /\ hardNav' = b.hardNav

\* ResponseInterceptor that redirects on 401 but leaves the token stored
ResponseInterceptorKeepToken(res, b) ==
  IF ~res.ok /\ res.status = 401
  THEN [b EXCEPT !.lastTokenEvent = "401", !.location = "/login", !.hardNav = TRUE]
  ELSE b

\* ResponseInterceptor that treats every error as an expired session
ResponseInterceptorAnyError(res, b) ==
  IF ~res.ok
  THEN [b EXCEPT !.storage = removeItem(b.storage, AuthTokenKey),
                 !.touched = b.touched \cup {AuthTokenKey},
                 !.lastTokenEvent = "401",
                 !.location = "/login",
                 !.hardNav = TRUE]
  ELSE b

\* response interceptor: a response is passed through; an error with status
\* 401 removes the token and assigns window.location.href, and every error
\* is then rejected to the caller.  The result is the browser state the
\* caller's continuation starts from.
ResponseInterceptor(res, b) ==
  IF ~res.ok /\ res.status = 401
  THEN [b EXCEPT !.storage = removeItem(b.storage, AuthTokenKey),
                 !.touched = b.touched \cup {AuthTokenKey},
                 !.lastTokenEvent = "401",
                 !.location = "/login",
                 !.hardNav = TRUE]
  ELSE b

\* -------------------------------------------------- component initial state
\* SummaryPage useState initialisers
InitSummary ==
  [summaryData |-> <<>>, isLoading |-> TRUE, error |-> Null, countries |-> <<>>]

\* ProvidersPage useState initialisers
InitProviders ==
  [providerData |-> [items |-> <<>>, pageNumber |-> 1, totalPages |-> 1,
                     totalCount |-> 0, hasPreviousPage |-> FALSE,
                     hasNextPage |-> FALSE],
   isLoading |-> TRUE, currentPage |-> 1, isLoadingCountries |-> TRUE,
   countries |-> <<>>]

\* the blank entries of the form arrays
BlankService == [name |-> "", hourlyRate |-> 0, countryCodes |-> <<>>]
BlankAttribute == [key |-> "", value |-> ""]

\* the search terms of the pickers of n services that were just rendered
BlankTerms(n) == [i \in 1..n |-> <<>>]

\* EditProviderPage useState / useForm defaultValues; searchTerm holds the
\* useState("") of each service's country picker, in the order of the services
InitEdit ==
  [isLoading |-> FALSE, isLoadingProvider |-> TRUE, error |-> "",
   countries |-> <<>>, isLoadingCountries |-> TRUE,
   form |-> [id |-> "", nit |-> "", name |-> "", email |-> "",
             services |-> <<BlankService>>, attributes |-> <<BlankAttribute>>],
   searchTerm |-> << <<>> >>]

\* NewProviderPage useState / useForm defaultValues
InitNew ==
  [isLoading |-> FALSE, error |-> "", countries |-> <<>>,
   isLoadingCountries |-> TRUE,
   form |-> [nit |-> "", name |-> "", email |-> "",
             services |-> <<BlankService>>, attributes |-> <<BlankAttribute>>],
   searchTerm |-> << <<>> >>]

NoChart == [providers |-> <<>>, services |-> <<>>]

\* no AuthGuard is mounted
NoGuard == [phase |-> "unmounted", isLoading |-> TRUE, checked |-> "none"]

Init ==
  /\ storage = EmptyStorage
  /\ storageKeysTouched = {}
  /\ lastTokenEvent = "none"
  /\ location = "/"
  /\ hardNav = FALSE
  /\ mounted = "home"
  /\ inst = 0
  /\ providerId = ""
  /\ summary = InitSummary
  /\ providers = InitProviders
  /\ edit = InitEdit
  /\ newp = InitNew
  /\ inflight = {}
  /\ sent = {}
  /\ triggers = <<>>
  /\ lastOp = Op("init")
  /\ edits = 0
  /\ chart = NoChart
  /\ guard = NoGuard

\* ------------------------------------------------------------ navigation
\* route parameters the edit page is opened with: the ids of listed providers
RouteIds == {ProviderIds[i] : i \in 1..Len(ProviderIds)}

EditRoute(id) == "/providers/" \o id

apiVars == <<storage, storageKeysTouched, lastTokenEvent>>

\* the routes the mounted page offers: its <Link>s and buttons, where it
\* renders them; the summary page and the login document have none and are
\* left through the browser's history
Links ==
  CASE mounted = "home" -> {"/providers", "/login"}
    [] mounted = "providers" ->
         IF providers.isLoading THEN {}
         ELSE {"/providers/new", "/summary"}
                \cup {EditRoute(providers.providerData.items[i].id) :
                        i \in 1..Len(providers.providerData.items)}
    [] mounted = "edit" -> IF edit.isLoadingProvider THEN {} ELSE {"/providers"}
    [] mounted = "new" -> {"/providers"}
    [] mounted = "summary" -> {"/providers"}
    [] mounted = "login" -> {"/"}
    [] OTHER -> {}

\* the page for `route` is about to mount: the user followed a link to it,
\* or a handler pushed the route while another page was mounted
Arriving(route, page) ==
  \/ ~hardNav /\ route \in Links
  \/ location = route /\ mounted # page

\* app/page.tsx: Home renders links only; it has no state and no requests
MountHome ==
  /\ Arriving("/", "home")
  /\ location' = "/"
  /\ mounted' = "home"
  /\ summary' = InitSummary
  /\ providers' = InitProviders
  /\ edit' = InitEdit
  /\ newp' = InitNew
  /\ lastOp' = Op("mountHome")
  /\ UNCHANGED <<apiVars, hardNav, inst, providerId, inflight,
                 sent, triggers, edits, chart, guard>>

\* the /login document is loaded: by a router.push('/login'), or by the
\* full reload that window.location.href = '/login' starts, which tears
\* the running page down together with its outstanding requests
PageLoadLogin ==
  /\ hardNav \/ Arriving("/login", "login")
  /\ mounted' = "login"
  /\ location' = "/login"
  /\ hardNav' = FALSE
  /\ inflight' = IF hardNav THEN {} ELSE inflight
  /\ summary' = InitSummary
  /\ providers' = InitProviders
  /\ edit' = InitEdit
  /\ newp' = InitNew
  /\ guard' = NoGuard
  /\ lastOp' = Op("pageLoadLogin")
  /\ UNCHANGED <<apiVars, inst, providerId, sent, triggers, edits, chart>>

\* MountSummary with both fetches started at once
MountSummaryParallel ==
  /\ Arriving("/summary", "summary")
  /\ location' = "/summary"
  /\ Len(triggers) < MaxTriggers
  /\ LET t == Len(triggers) + 1
         r == Request(1, t, t, "summary", "summary", "GET", "/Summary", <<>>, <<>>)
         r2 == Request(2, t, t, "summary", "country", "GET", "/Country", <<>>, <<>>)
     IN  /\ triggers' = Append(triggers, "mountSummary")
         /\ inst' = t
         /\ inflight' = inflight \cup {r, r2}
         /\ sent' = sent \cup {r, r2}
  /\ mounted' = "summary"
  /\ summary' = [InitSummary EXCEPT !.isLoading = TRUE]
  /\ providers' = InitProviders
  /\ edit' = InitEdit
  /\ newp' = InitNew
  /\ lastOp' = Op("mountSummary")
  /\ UNCHANGED <<apiVars, hardNav, providerId, edits, chart, guard>>

\* ---------------------------------------------------- SummaryPage (types.ts)
\* mount: useEffect runs fetchData up to its first await
MountSummary ==
  /\ Arriving("/summary", "summary")
  /\ location' = "/summary"
  /\ Len(triggers) < MaxTriggers
  /\ LET t == Len(triggers) + 1
         r == Request(1, t, t, "summary", "summary", "GET", "/Summary", <<>>, <<>>)
     IN  /\ triggers' = Append(triggers, "mountSummary")
         /\ inst' = t
         /\ inflight' = inflight \cup {r}
         /\ sent' = sent \cup {r}
  /\ mounted' = "summary"
  /\ summary' = [InitSummary EXCEPT !.isLoading = TRUE]
  /\ providers' = InitProviders
  /\ edit' = InitEdit
  /\ newp' = InitNew
  /\ lastOp' = Op("mountSummary")
  /\ UNCHANGED <<apiVars, hardNav, providerId, edits, chart, guard>>

\* fetchData after `await api.get('/Summary')`: on success store the data
\* and issue GET /Country; on failure run catch and finally
FetchDataSummary(r, res) ==
  /\ r \in inflight
  /\ r.page = "summary" /\ r.op = "summary"
  /\ res \in {Ok(<<SummaryResponse>>)} \cup FetchFailures
  /\ SetBrowser(ResponseInterceptor(res, Browser))
  /\ IF res.ok
     THEN LET r2 == Request(1, r.trigger, r.inst, "summary", "country", "GET",
                            "/Country", <<>>, <<>>)
          IN  /\ inflight' = (inflight \ {r}) \cup {r2}
              /\ sent' = sent \cup {r2}
              /\ summary' = IF Alive(r)
                            THEN [summary EXCEPT !.summaryData = res.data]
                            ELSE summary
     ELSE /\ inflight' = inflight \ {r}
          /\ sent' = sent
          /\ summary' = IF Alive(r)
                        THEN [summary EXCEPT
                                !.error = "Failed to load summary data. Please try again later.",
                                !.isLoading = FALSE]
                        ELSE summary
  /\ lastOp' = Completion("fetchDataSummary", r, res)
  /\ UNCHANGED <<mounted, inst, providerId, providers, edit, newp, triggers, edits, chart, guard>>

\* FetchDataCountry whose failure is logged only, as on the other pages
FetchDataCountryLogOnly(r, res) ==
  /\ r \in inflight
  /\ r.page = "summary" /\ r.op = "country"
  /\ res \in {Ok(CountryList)} \cup FetchFailures
  /\ SetBrowser(ResponseInterceptor(res, Browser))
  /\ inflight' = inflight \ {r}
  /\ summary' = IF ~Alive(r) THEN summary
                ELSE IF res.ok
                THEN [summary EXCEPT !.countries = res.data, !.isLoading = FALSE]
                ELSE [summary EXCEPT !.isLoading = FALSE]
  /\ lastOp' = Completion("fetchDataCountry", r, res)
  /\ UNCHANGED <<mounted, inst, providerId, providers, edit, newp, sent,
                 triggers, edits, chart, guard>>

\* fetchData after `await api.get('/Country')`
FetchDataCountry(r, res) ==
  /\ r \in inflight
  /\ r.page = "summary" /\ r.op = "country"
  /\ res \in {Ok(CountryList)} \cup FetchFailures
  /\ SetBrowser(ResponseInterceptor(res, Browser))
  /\ inflight' = inflight \ {r}
  /\ summary' = IF ~Alive(r) THEN summary
                ELSE IF res.ok
                THEN [summary EXCEPT !.countries = res.data, !.isLoading = FALSE]
                ELSE [summary EXCEPT
                        !.error = "Failed to load summary data. Please try again later.",
                        !.isLoading = FALSE]
  /\ lastOp' = Completion("fetchDataCountry", r, res)
  /\ UNCHANGED <<mounted, inst, providerId, providers, edit, newp, sent,
                 triggers, edits, chart, guard>>

\* ------------------------------------------- ProvidersPage (providers/page.tsx)
Min(a, b) == IF a < b THEN a ELSE b

\* a consistent backend: the PaginatedResponse for page p
ProviderPage(p) ==
  LET total == Len(ProviderIds)
      pages == (total + PageSize - 1) \div PageSize
      first == (p - 1) * PageSize + 1
      last == Min(p * PageSize, total)
  IN  [items |-> IF p >= 1 /\ first <= last
                 THEN [i \in 1..(last - first + 1) |-> ProviderOf(ProviderIds[first + i - 1])]
                 ELSE <<>>,
       pageNumber |-> p, totalPages |-> pages, totalCount |-> total,
       hasPreviousPage |-> p > 1, hasNextPage |-> p < pages]

\* the effect body of ProvidersPage: fetchCountries() then fetchProviders(),
\* each run up to its await
ProvidersEffect(t, i, page) ==
  LET rc == Request(1, t, i, "providers", "country", "GET", "/Country", <<>>, <<>>)
      rp == Request(2, t, i, "providers", "providerList", "GET", "/Provider",
                    <<[pageNumber |-> page, pageSize |-> PageSize]>>, <<>>)
  IN  {rc, rp}

MountProviders ==
  /\ Arriving("/providers", "providers")
  /\ location' = "/providers"
  /\ Len(triggers) < MaxTriggers
  /\ LET t == Len(triggers) + 1
         rs == ProvidersEffect(t, t, InitProviders.currentPage)
     IN  /\ triggers' = Append(triggers, "mountProviders")
         /\ inst' = t
         /\ inflight' = inflight \cup rs
         /\ sent' = sent \cup rs
  /\ mounted' = "providers"
  /\ providers' = [InitProviders EXCEPT !.isLoading = TRUE,
                                       !.isLoadingCountries = TRUE]
  /\ summary' = InitSummary
  /\ edit' = InitEdit
  /\ newp' = InitNew
  /\ lastOp' = Op("mountProviders")
  /\ UNCHANGED <<apiVars, hardNav, providerId, edits, chart, guard>>

\* Previous / Next: handlePageChange(newPage), then the effect re-runs
\* because currentPage changed.  The controls exist only while the list is
\* rendered (isLoading false) and totalPages > 1.
HandlePageChange(newPage) ==
  /\ mounted = "providers"
  /\ ~hardNav
  /\ ~providers.isLoading
  /\ providers.providerData.totalPages > 1
  /\ \/ newPage = providers.currentPage - 1 /\ providers.providerData.hasPreviousPage
     \/ newPage = providers.currentPage + 1 /\ providers.providerData.hasNextPage
  /\ Len(triggers) < MaxTriggers
  /\ LET t == Len(triggers) + 1
         rs == ProvidersEffect(t, inst, newPage)
     IN  /\ triggers' = Append(triggers, "pageChange")
         /\ inflight' = inflight \cup rs
         /\ sent' = sent \cup rs
  /\ providers' = [providers EXCEPT !.currentPage = newPage,
                                    !.isLoading = TRUE,
                                    !.isLoadingCountries = TRUE]
  /\ lastOp' = Op("pageChange")
  /\ UNCHANGED <<apiVars, location, hardNav, mounted, inst, providerId,
                 summary, edit, newp, edits, chart, guard>>

\* FetchProviders whose catch block sends the request again
FetchProvidersRetry(r, res) ==
  /\ r \in inflight
  /\ r.page = "providers" /\ r.op = "providerList"
  /\ res \in {Ok(<<ProviderPage(r.params[1].pageNumber)>>)} \cup FetchFailures
  /\ SetBrowser(ResponseInterceptor(res, Browser))
  /\ IF res.ok
     THEN inflight' = inflight \ {r} /\ sent' = sent
     ELSE LET again == [r EXCEPT !.rid = Cardinality(sent) + 1]
          IN  inflight' = (inflight \ {r}) \cup {again} /\ sent' = sent \cup {again}
  /\ providers' = IF ~Alive(r) THEN providers
                  ELSE IF res.ok
                  THEN [providers EXCEPT !.providerData = res.data[1],
                                         !.isLoading = FALSE]
                  ELSE providers
  /\ lastOp' = Completion("fetchProviders", r, res)
  /\ UNCHANGED <<mounted, inst, providerId, summary, edit, newp,
                 triggers, edits, chart, guard>>

\* FetchProviders that also caches the page it received in localStorage
FetchProvidersCached(r, res) ==
  /\ r \in inflight
  /\ r.page = "providers" /\ r.op = "providerList"
  /\ res \in {Ok(<<ProviderPage(r.params[1].pageNumber)>>)} \cup FetchFailures
  /\ LET b == ResponseInterceptor(res, Browser)
     IN  SetBrowser(IF res.ok
                    THEN [b EXCEPT !.storage = setItem(b.storage, "providers", "cached"),
                                   !.touched = b.touched \cup {"providers"}]
                    ELSE b)
  /\ inflight' = inflight \ {r}
  /\ providers' = IF ~Alive(r) THEN providers
                  ELSE IF res.ok
                  THEN [providers EXCEPT !.providerData = res.data[1],
                                         !.isLoading = FALSE]
                  ELSE [providers EXCEPT !.isLoading = FALSE]
  /\ lastOp' = Completion("fetchProviders", r, res)
  /\ UNCHANGED <<mounted, inst, providerId, summary, edit, newp, sent,
                 triggers, edits, chart, guard>>

\* fetchProviders after its await: try / catch (log only) / finally
FetchProviders(r, res) ==
  /\ r \in inflight
  /\ r.page = "providers" /\ r.op = "providerList"
  /\ res \in {Ok(<<ProviderPage(r.params[1].pageNumber)>>)} \cup FetchFailures
  /\ SetBrowser(ResponseInterceptor(res, Browser))
  /\ inflight' = inflight \ {r}
  /\ providers' = IF ~Alive(r) THEN providers
                  ELSE IF res.ok
                  THEN [providers EXCEPT !.providerData = res.data[1],
                                         !.isLoading = FALSE]
                  ELSE [providers EXCEPT !.isLoading = FALSE]
  /\ lastOp' = Completion("fetchProviders", r, res)
  /\ UNCHANGED <<mounted, inst, providerId, summary, edit, newp, sent,
                 triggers, edits, chart, guard>>

\* ProvidersFetchCountries whose finally clears the list's isLoading as well
ProvidersFetchCountriesSharedFlag(r, res) ==
  /\ r \in inflight
  /\ r.page = "providers" /\ r.op = "country"
  /\ res \in {Ok(CountryList)} \cup FetchFailures
  /\ SetBrowser(ResponseInterceptor(res, Browser))
  /\ inflight' = inflight \ {r}
  /\ providers' = IF ~Alive(r) THEN providers
                  ELSE IF res.ok
                  THEN [providers EXCEPT !.countries = res.data,
                                         !.isLoading = FALSE,
                                         !.isLoadingCountries = FALSE]
                  ELSE [providers EXCEPT !.isLoading = FALSE,
                                         !.isLoadingCountries = FALSE]
  /\ lastOp' = Completion("providersFetchCountries", r, res)
  /\ UNCHANGED <<mounted, inst, providerId, summary, edit, newp, sent,
                 triggers, edits, chart, guard>>

\* fetchCountries of the list page after its await: catch logs only
ProvidersFetchCountries(r, res) ==
  /\ r \in inflight
  /\ r.page = "providers" /\ r.op = "country"
  /\ res \in {Ok(CountryList)} \cup FetchFailures
  /\ SetBrowser(ResponseInterceptor(res, Browser))
  /\ inflight' = inflight \ {r}
  /\ providers' = IF ~Alive(r) THEN providers
                  ELSE IF res.ok
                  THEN [providers EXCEPT !.countries = res.data,
                                         !.isLoadingCountries = FALSE]
                  ELSE [providers EXCEPT !.isLoadingCountries = FALSE]
  /\ lastOp' = Completion("providersFetchCountries", r, res)
  /\ UNCHANGED <<mounted, inst, providerId, summary, edit, newp, sent,
                 triggers, edits, chart, guard>>

\* ------------------------------------------------ form schemas (zod)
\* strings z.string().email() accepts, among the strings the model uses
WellFormedEmails ==
  {"ana@acme.co"} \cup {ProviderIds[i] \o "@acme.co" : i \in 1..Len(ProviderIds)}

IsEmail(s) == s \in WellFormedEmails

\* ServiceSchema: name min(1), hourlyRate positive, countryCodes min(1)
ServiceSchema(s) ==
  /\ s.name # ""
  /\ s.hourlyRate > 0
  /\ Len(s.countryCodes) >= 1

\* AttributeSchema: key min(1), value min(1)
AttributeSchema(a) == a.key # "" /\ a.value # ""

\* ProviderSchema of the edit page: nit carries no min(1)
EditProviderSchema(f) ==
  /\ f.name # ""
  /\ IsEmail(f.email)
  /\ \A i \in 1..Len(f.services) : ServiceSchema(f.services[i])
  /\ \A i \in 1..Len(f.attributes) : AttributeSchema(f.attributes[i])

\* ProviderSchema of the new-provider page
NewProviderSchema(f) ==
  /\ f.nit # ""
  /\ f.name # ""
  /\ IsEmail(f.email)
  /\ \A i \in 1..Len(f.services) : ServiceSchema(f.services[i])
  /\ \A i \in 1..Len(f.attributes) : AttributeSchema(f.attributes[i])

\* --------------------------------- EditProviderPage (providers/[id]/page.tsx)
\* FormData that lists the services in reverse order
FormDataReversed(provider) ==
  [id |-> provider.id, nit |-> provider.nit, name |-> provider.name,
   email |-> provider.email,
   services |->
     [i \in 1..Len(provider.services) |->
        LET service == provider.services[Len(provider.services) + 1 - i]
        IN  [id |-> service.id, name |-> service.name,
             hourlyRate |-> service.hourlyRate,
             countryCodes |->
               [j \in 1..Len(service.countries) |-> service.countries[j].countryCode]]],
   attributes |->
     [i \in 1..Len(provider.customAttributes) |->
        LET attr == provider.customAttributes[i]
        IN  [id |-> attr.id, key |-> attr.key, value |-> attr.value]]]

\* fetchProvider: the API record transformed to the form's shape
FormData(provider) ==
  [id |-> provider.id, nit |-> provider.nit, name |-> provider.name,
   email |-> provider.email,
   services |->
     [i \in 1..Len(provider.services) |->
        LET service == provider.services[i]
        IN  [id |-> service.id, name |-> service.name,
             hourlyRate |-> service.hourlyRate,
             countryCodes |->
               [j \in 1..Len(service.countries) |-> service.countries[j].countryCode]]],
   attributes |->
     [i \in 1..Len(provider.customAttributes) |->
        LET attr == provider.customAttributes[i]
        IN  [id |-> attr.id, key |-> attr.key, value |-> attr.value]]]

\* onSubmit of the edit page: the body of the PUT
UpdateBody(id, data) ==
  [id |-> id, name |-> data.name, email |-> data.email,
   services |->
     [i \in 1..Len(data.services) |->
        [name |-> data.services[i].name,
         hourlyRate |-> data.services[i].hourlyRate,
         countryCodes |-> data.services[i].countryCodes]],
   attributes |->
     [i \in 1..Len(data.attributes) |->
        [key |-> data.attributes[i].key, value |-> data.attributes[i].value]]]

\* MountEdit of a page whose isLoadingProvider starts false
MountEditFormShown(id) ==
  /\ id \in RouteIds
  /\ \/ ~hardNav /\ EditRoute(id) \in Links
     \/ location = EditRoute(id) /\ ~(mounted = "edit" /\ providerId = id)
  /\ location' = EditRoute(id)
  /\ Len(triggers) < MaxTriggers
  /\ LET t == Len(triggers) + 1
         rp == Request(1, t, t, "edit", "provider", "GET", "/Provider/" \o id,
                       <<>>, <<>>)
         rc == Request(2, t, t, "edit", "country", "GET", "/Country", <<>>, <<>>)
     IN  /\ triggers' = Append(triggers, "mountEdit")
         /\ inst' = t
         /\ inflight' = inflight \cup {rp, rc}
         /\ sent' = sent \cup {rp, rc}
  /\ mounted' = "edit"
  /\ providerId' = id
  /\ edit' = [InitEdit EXCEPT !.isLoadingProvider = FALSE,
                             !.isLoadingCountries = TRUE]
  /\ summary' = InitSummary
  /\ providers' = InitProviders
  /\ newp' = InitNew
  /\ lastOp' = Op("mountEdit")
  /\ UNCHANGED <<apiVars, hardNav, edits, chart, guard>>

\* mount: both effects run, fetchProvider first, then fetchCountries
MountEdit(id) ==
  /\ id \in RouteIds
  /\ \/ ~hardNav /\ EditRoute(id) \in Links
     \/ location = EditRoute(id) /\ ~(mounted = "edit" /\ providerId = id)
  /\ location' = EditRoute(id)
  /\ Len(triggers) < MaxTriggers
  /\ LET t == Len(triggers) + 1
         rp == Request(1, t, t, "edit", "provider", "GET", "/Provider/" \o id,
                       <<>>, <<>>)
         rc == Request(2, t, t, "edit", "country", "GET", "/Country", <<>>, <<>>)
     IN  /\ triggers' = Append(triggers, "mountEdit")
         /\ inst' = t
         /\ inflight' = inflight \cup {rp, rc}
         /\ sent' = sent \cup {rp, rc}
  /\ mounted' = "edit"
  /\ providerId' = id
  /\ edit' = [InitEdit EXCEPT !.isLoadingProvider = TRUE,
                             !.isLoadingCountries = TRUE]
  /\ summary' = InitSummary
  /\ providers' = InitProviders
  /\ newp' = InitNew
  /\ lastOp' = Op("mountEdit")
  /\ UNCHANGED <<apiVars, hardNav, edits, chart, guard>>

\* the backend resolves the {id} of /Provider/{id}
PathId(path) == CHOOSE id \in RouteIds : "/Provider/" \o id = path

\* FetchProvider whose failure path never reaches setIsLoadingProvider(false)
FetchProviderNoFinally(r, res) ==
  /\ r \in inflight
  /\ r.page = "edit" /\ r.op = "provider"
  /\ res \in {Ok(<<ProviderOf(PathId(r.path))>>)} \cup FetchFailures
  /\ SetBrowser(ResponseInterceptor(res, Browser))
  /\ inflight' = inflight \ {r}
  /\ edit' = IF ~Alive(r) THEN edit
             ELSE IF res.ok
             THEN [edit EXCEPT !.form = FormData(res.data[1]),
                               !.searchTerm = BlankTerms(Len(res.data[1].services)),
                               !.isLoadingProvider = FALSE]
             ELSE [edit EXCEPT !.error = "Error loading provider data"]
  /\ lastOp' = Completion("fetchProvider", r, res)
  /\ UNCHANGED <<mounted, inst, providerId, summary, providers, newp, sent,
                 triggers, edits, chart, guard>>

\* fetchProvider after its await
FetchProvider(r, res) ==
  /\ r \in inflight
  /\ r.page = "edit" /\ r.op = "provider"
  /\ res \in {Ok(<<ProviderOf(PathId(r.path))>>)} \cup FetchFailures
  /\ SetBrowser(ResponseInterceptor(res, Browser))
  /\ inflight' = inflight \ {r}
  /\ edit' = IF ~Alive(r) THEN edit
             ELSE IF res.ok
             THEN [edit EXCEPT !.form = FormData(res.data[1]),
                               !.searchTerm = BlankTerms(Len(res.data[1].services)),
                               !.isLoadingProvider = FALSE]
             ELSE [edit EXCEPT !.error = "Error loading provider data",
                               !.isLoadingProvider = FALSE]
  /\ lastOp' = Completion("fetchProvider", r, res)
  /\ UNCHANGED <<mounted, inst, providerId, summary, providers, newp, sent,
                 triggers, edits, chart, guard>>

\* fetchCountries of the edit page after its await: catch logs only
EditFetchCountries(r, res) ==
  /\ r \in inflight
  /\ r.page = "edit" /\ r.op = "country"
  /\ res \in {Ok(CountryList)} \cup FetchFailures
  /\ SetBrowser(ResponseInterceptor(res, Browser))
  /\ inflight' = inflight \ {r}
  /\ edit' = IF ~Alive(r) THEN edit
             ELSE IF res.ok
             THEN [edit EXCEPT !.countries = res.data,
                               !.isLoadingCountries = FALSE]
             ELSE [edit EXCEPT !.isLoadingCountries = FALSE]
  /\ lastOp' = Completion("editFetchCountries", r, res)
  /\ UNCHANGED <<mounted, inst, providerId, summary, providers, newp, sent,
                 triggers, edits, chart, guard>>

\* EditOnSubmit that puts to the collection instead of /Provider/{id}
EditOnSubmitToCollection ==
  /\ mounted = "edit"
  /\ ~hardNav
  /\ ~edit.isLoadingProvider
  /\ ~edit.isLoading
  /\ EditProviderSchema(edit.form)
  /\ Len(triggers) < MaxTriggers
  /\ LET t == Len(triggers) + 1
         r == Request(1, t, inst, "edit", "update", "PUT", "/Provider", <<>>,
                      <<UpdateBody(providerId, edit.form)>>)
     IN  /\ triggers' = Append(triggers, "submitEdit")
         /\ inflight' = inflight \cup {r}
         /\ sent' = sent \cup {r}
  /\ edit' = [edit EXCEPT !.isLoading = TRUE, !.error = ""]
  /\ lastOp' = Op("submitEdit")
  /\ UNCHANGED <<apiVars, location, hardNav, mounted, inst, providerId,
                 summary, providers, newp, edits, chart, guard>>

\* EditOnSubmit without the zodResolver: onSubmit runs on whatever the form holds
EditOnSubmitUnvalidated ==
  /\ mounted = "edit"
  /\ ~hardNav
  /\ ~edit.isLoadingProvider
  /\ ~edit.isLoading
  /\ Len(triggers) < MaxTriggers
  /\ LET t == Len(triggers) + 1
         r == Request(1, t, inst, "edit", "update", "PUT",
                      "/Provider/" \o providerId, <<>>,
                      <<UpdateBody(providerId, edit.form)>>)
     IN  /\ triggers' = Append(triggers, "submitEdit")
         /\ inflight' = inflight \cup {r}
         /\ sent' = sent \cup {r}
  /\ edit' = [edit EXCEPT !.isLoading = TRUE, !.error = ""]
  /\ lastOp' = Op("submitEdit")
  /\ UNCHANGED <<apiVars, location, hardNav, mounted, inst, providerId,
                 summary, providers, newp, edits, chart, guard>>

\* the submit button of the edit form: handleSubmit validates, then
\* onSubmit runs up to `await api.put(...)`
EditOnSubmit ==
  /\ mounted = "edit"
  /\ ~hardNav
  /\ ~edit.isLoadingProvider
  /\ ~edit.isLoading
  /\ EditProviderSchema(edit.form)
  /\ Len(triggers) < MaxTriggers
  /\ LET t == Len(triggers) + 1
         r == Request(1, t, inst, "edit", "update", "PUT",
                      "/Provider/" \o providerId, <<>>,
                      <<UpdateBody(providerId, edit.form)>>)
     IN  /\ triggers' = Append(triggers, "submitEdit")
         /\ inflight' = inflight \cup {r}
         /\ sent' = sent \cup {r}
  /\ edit' = [edit EXCEPT !.isLoading = TRUE, !.error = ""]
  /\ lastOp' = Op("submitEdit")
  /\ UNCHANGED <<apiVars, location, hardNav, mounted, inst, providerId,
                 summary, providers, newp, edits, chart, guard>>

\* SubmitErrorMessage ignoring the response body
SubmitErrorMessageGeneric(res, fallback) == fallback

\* the message onSubmit's catch shows
SubmitErrorMessage(res, fallback) ==
  IF Truthy(res.message) THEN res.message ELSE fallback

\* EditOnSubmitResponse that reaches router.push('/providers') after a
\* failure as well
EditOnSubmitResponseAlwaysPush(r, res) ==
  /\ r \in inflight
  /\ r.page = "edit" /\ r.op = "update"
  /\ res \in {Ok(<<>>)} \cup Failures
  /\ LET b == ResponseInterceptor(res, Browser)
     IN  SetBrowser(IF res.status # 401 THEN [b EXCEPT !.location = "/providers"] ELSE b)
  /\ inflight' = inflight \ {r}
  /\ edit' = IF ~Alive(r) THEN edit
             ELSE IF res.ok
             THEN [edit EXCEPT !.isLoading = FALSE]
             ELSE [edit EXCEPT
                     !.error = SubmitErrorMessage(res, "Failed to update provider"),
                     !.isLoading = FALSE]
  /\ lastOp' = Completion("editOnSubmit", r, res)
  /\ UNCHANGED <<mounted, inst, providerId, summary, providers, newp, sent,
                 triggers, edits, chart, guard>>

\* onSubmit of the edit page after its await
EditOnSubmitResponse(r, res) ==
  /\ r \in inflight
  /\ r.page = "edit" /\ r.op = "update"
  /\ res \in {Ok(<<>>)} \cup Failures
  /\ LET b == ResponseInterceptor(res, Browser)
     IN  SetBrowser(IF res.ok THEN [b EXCEPT !.location = "/providers"] ELSE b)
  /\ inflight' = inflight \ {r}
  /\ edit' = IF ~Alive(r) THEN edit
             ELSE IF res.ok
             THEN [edit EXCEPT !.isLoading = FALSE]
             ELSE [edit EXCEPT
                     !.error = SubmitErrorMessage(res, "Failed to update provider"),
                     !.isLoading = FALSE]
  /\ lastOp' = Completion("editOnSubmit", r, res)
  /\ UNCHANGED <<mounted, inst, providerId, summary, providers, newp, sent,
                 triggers, edits, chart, guard>>

\* ---------------------------------- NewProviderPage (providers/[id]/page.tsx)
MountNew ==
  /\ Arriving("/providers/new", "new")
  /\ location' = "/providers/new"
  /\ Len(triggers) < MaxTriggers
  /\ LET t == Len(triggers) + 1
         rc == Request(1, t, t, "new", "country", "GET", "/Country", <<>>, <<>>)
     IN  /\ triggers' = Append(triggers, "mountNew")
         /\ inst' = t
         /\ inflight' = inflight \cup {rc}
         /\ sent' = sent \cup {rc}
  /\ mounted' = "new"
  /\ newp' = [InitNew EXCEPT !.isLoadingCountries = TRUE]
  /\ summary' = InitSummary
  /\ providers' = InitProviders
  /\ edit' = InitEdit
  /\ lastOp' = Op("mountNew")
  /\ UNCHANGED <<apiVars, hardNav, providerId, edits, chart, guard>>

\* fetchCountries of the new-provider page after its await
NewFetchCountries(r, res) ==
  /\ r \in inflight
  /\ r.page = "new" /\ r.op = "country"
  /\ res \in {Ok(CountryList)} \cup FetchFailures
  /\ SetBrowser(ResponseInterceptor(res, Browser))
  /\ inflight' = inflight \ {r}
  /\ newp' = IF ~Alive(r) THEN newp
             ELSE IF res.ok
             THEN [newp EXCEPT !.countries = res.data,
                               !.isLoadingCountries = FALSE]
             ELSE [newp EXCEPT
                     !.error = "Failed to load countries. Please try again.",
                     !.isLoadingCountries = FALSE]
  /\ lastOp' = Completion("newFetchCountries", r, res)
  /\ UNCHANGED <<mounted, inst, providerId, summary, providers, edit, sent,
                 triggers, edits, chart, guard>>

\* NewOnSubmit whose button stays enabled while isLoading
NewOnSubmitWhileLoading ==
  /\ mounted = "new"
  /\ ~hardNav
  /\ NewProviderSchema(newp.form)
  /\ Len(triggers) < MaxTriggers
  /\ LET t == Len(triggers) + 1
         r == Request(1, t, inst, "new", "create", "POST",
                      "/Provider/with-details", <<>>, <<newp.form>>)
     IN  /\ triggers' = Append(triggers, "submitNew")
         /\ inflight' = inflight \cup {r}
         /\ sent' = sent \cup {r}
  /\ newp' = [newp EXCEPT !.isLoading = TRUE, !.error = ""]
  /\ lastOp' = Op("submitNew")
  /\ UNCHANGED <<apiVars, location, hardNav, mounted, inst, providerId,
                 summary, providers, edit, edits, chart, guard>>

\* the submit button of the new-provider form
NewOnSubmit ==
  /\ mounted = "new"
  /\ ~hardNav
  /\ ~newp.isLoading
  /\ NewProviderSchema(newp.form)
  /\ Len(triggers) < MaxTriggers
  /\ LET t == Len(triggers) + 1
         r == Request(1, t, inst, "new", "create", "POST",
                      "/Provider/with-details", <<>>, <<newp.form>>)
     IN  /\ triggers' = Append(triggers, "submitNew")
         /\ inflight' = inflight \cup {r}
         /\ sent' = sent \cup {r}
  /\ newp' = [newp EXCEPT !.isLoading = TRUE, !.error = ""]
  /\ lastOp' = Op("submitNew")
  /\ UNCHANGED <<apiVars, location, hardNav, mounted, inst, providerId,
                 summary, providers, edit, edits, chart, guard>>

\* onSubmit of the new-provider page after its await
NewOnSubmitResponse(r, res) ==
  /\ r \in inflight
  /\ r.page = "new" /\ r.op = "create"
  /\ res \in {Ok(<<>>)} \cup Failures
  /\ LET b == ResponseInterceptor(res, Browser)
     IN  SetBrowser(IF res.ok THEN [b EXCEPT !.location = "/providers"] ELSE b)
  /\ inflight' = inflight \ {r}
  /\ newp' = IF ~Alive(r) THEN newp
             ELSE IF res.ok
             THEN [newp EXCEPT !.isLoading = FALSE]
             ELSE [newp EXCEPT
                     !.error = SubmitErrorMessage(res, "Failed to create provider"),
                     !.isLoading = FALSE]
  /\ lastOp' = Completion("newOnSubmit", r, res)
  /\ UNCHANGED <<mounted, inst, providerId, summary, providers, edit, sent,
                 triggers, edits, chart, guard>>

\* the user fills the whole new-provider form in (a run of input events
\* through register(...) and the country picker, taken as one step); the
\* picker is rendered once isLoadingCountries is false and offers the
\* countries that were loaded
FilledNewForm ==
  [nit |-> "900123", name |-> "Zeta", email |-> "ana@acme.co",
   services |-> << [name |-> "Hosting", hourlyRate |-> 40, countryCodes |-> <<CO>>] >>,
   attributes |-> << [key |-> "tier", value |-> "gold"] >>]

FillNewForm ==
  /\ mounted = "new"
  /\ ~hardNav
  /\ ~newp.isLoadingCountries
  /\ \A i \in 1..Len(FilledNewForm.services) :
       \A j \in 1..Len(FilledNewForm.services[i].countryCodes) :
         \E k \in 1..Len(newp.countries) :
           newp.countries[k].code = FilledNewForm.services[i].countryCodes[j]
  /\ newp.form # FilledNewForm
  /\ newp' = [newp EXCEPT !.form = FilledNewForm,
                          !.searchTerm = BlankTerms(Len(FilledNewForm.services))]
  /\ lastOp' = Op("fillNewForm")
  /\ UNCHANGED <<apiVars, location, hardNav, mounted, inst, providerId,
                 summary, providers, edit, inflight, sent, triggers, edits, chart, guard>>

\* ------------------------------------------------- authService (lib/api.ts)
\* what response.data.token can be: absent, empty, or a token
LoginTokens == {Null, "", "tokA"}

\* authService.login up to `await api.post('/Auth/login', ...)`
Login ==
  /\ ~hardNav
  /\ Len(triggers) < MaxTriggers
  /\ LET t == Len(triggers) + 1
         r == Request(1, t, 0, "api", "login", "POST", "/Auth/login", <<>>,
                      <<[username |-> "ana", password |-> "secret"]>>)
     IN  /\ triggers' = Append(triggers, "login")
         /\ inflight' = inflight \cup {r}
         /\ sent' = sent \cup {r}
  /\ lastOp' = Op("login")
  /\ UNCHANGED <<apiVars, location, hardNav, mounted, inst, providerId,
                 summary, providers, edit, newp, edits, chart, guard>>

\* LoginResponse without the `if (response.data.token)` test
LoginResponseStoreAlways(r, res) ==
  /\ r \in inflight
  /\ r.op = "login"
  /\ res \in {Ok(<<[token |-> t]>>) : t \in LoginTokens} \cup FetchFailures
  /\ LET b == ResponseInterceptor(res, Browser)
     IN  SetBrowser(IF res.ok
                    THEN [b EXCEPT
                            !.storage = setItem(b.storage, AuthTokenKey, res.data[1].token),
                            !.touched = b.touched \cup {AuthTokenKey},
                            !.lastTokenEvent = "login"]
                    ELSE b)
  /\ inflight' = inflight \ {r}
  /\ lastOp' = Completion("login", r, res)
  /\ UNCHANGED <<mounted, inst, providerId, summary, providers, edit, newp,
                 sent, triggers, edits, chart, guard>>

\* authService.login after its await: the token is stored only if the
\* response carries a truthy one; otherwise login throws
LoginResponse(r, res) ==
  /\ r \in inflight
  /\ r.op = "login"
  /\ res \in {Ok(<<[token |-> t]>>) : t \in LoginTokens} \cup FetchFailures
  /\ LET b == ResponseInterceptor(res, Browser)
     IN  SetBrowser(IF res.ok /\ Truthy(res.data[1].token)
                    THEN [b EXCEPT
                            !.storage = setItem(b.storage, AuthTokenKey, res.data[1].token),
                            !.touched = b.touched \cup {AuthTokenKey},
                            !.lastTokenEvent = "login"]
                    ELSE b)
  /\ inflight' = inflight \ {r}
  /\ lastOp' = Completion("login", r, res)
  /\ UNCHANGED <<mounted, inst, providerId, summary, providers, edit, newp,
                 sent, triggers, edits, chart, guard>>

\* authService.logout
Logout ==
  /\ ~hardNav
  /\ storage' = removeItem(storage, AuthTokenKey)
  /\ storageKeysTouched' = storageKeysTouched \cup {AuthTokenKey}
  /\ lastTokenEvent' = "logout"
  /\ location' = "/login"
  /\ hardNav' = TRUE
  /\ lastOp' = Op("logout")
  /\ UNCHANGED <<mounted, inst, providerId, summary, providers, edit, newp,
                 inflight, sent, triggers, edits, chart, guard>>

\* ------------------------------------------------ AuthGuard (lib/AuthGuard.tsx)
\* the route of a page whose content is wrapped in <AuthGuard>
GuardedRoute == "/guarded"

\* AuthGuard mounts: useState(true), and the first render shows
\* 'Checking authentication...'
MountGuard ==
  /\ ~hardNav
  /\ guard.phase = "unmounted"
  /\ guard' = [phase |-> "rendered", isLoading |-> TRUE, checked |-> "none"]
  /\ mounted' = "guard"
  /\ location' = GuardedRoute
  /\ lastOp' = Op("mountGuard")
  /\ UNCHANGED <<apiVars, hardNav, inst, providerId, summary, providers, edit,
                 newp, inflight, sent, triggers, edits, chart>>

\* GuardEffect that ends the loading state in both branches
GuardEffectAlwaysRender ==
  /\ guard.phase = "rendered"
  /\ IF ~isAuthenticated
     THEN /\ location' = "/login"
          /\ guard' = [guard EXCEPT !.phase = "settled", !.checked = "false",
                                    !.isLoading = FALSE]
     ELSE /\ location' = location
          /\ guard' = [guard EXCEPT !.phase = "settled", !.checked = "true",
                                    !.isLoading = FALSE]
  /\ lastOp' = Op("guardEffect")
  /\ UNCHANGED <<apiVars, hardNav, mounted, inst, providerId, summary,
                 providers, edit, newp, inflight, sent, triggers, edits, chart>>

\* the effect after the first render (deps [router], so it runs once):
\* router.push('/login') if isAuthenticated() is false, else setIsLoading(false)
GuardEffect ==
  /\ guard.phase = "rendered"
  /\ IF ~isAuthenticated
     THEN /\ location' = "/login"
          /\ guard' = [guard EXCEPT !.phase = "settled", !.checked = "false"]
     ELSE /\ location' = location
          /\ guard' = [guard EXCEPT !.phase = "settled", !.checked = "true",
                                    !.isLoading = FALSE]
  /\ lastOp' = Op("guardEffect")
  /\ UNCHANGED <<apiVars, hardNav, mounted, inst, providerId, summary,
                 providers, edit, newp, inflight, sent, triggers, edits, chart>>

\* what AuthGuard returns: its children, or the 'Checking authentication...' div
ChildrenRendered == guard.phase # "unmounted" /\ ~guard.isLoading

\* a guarded page, the login document and authService
NextGuard ==
  \/ MountGuard
  \/ GuardEffect
  \/ PageLoadLogin
  \/ Login
  \/ \E r \in inflight :
       \E res \in {Ok(<<[token |-> t]>>) : t \in LoginTokens} \cup FetchFailures :
         LoginResponse(r, res)
  \/ Logout

SpecGuard == Init /\ [][NextGuard]_vars

\* ------------------------------------------ form editing (both form pages)
\* longest run of input events the form editor is driven through
MaxEdits == 2

\* what the user types into a text input, and into the hourly-rate input
TextValues == {"", "Zeta"}
RateValues == {0, 40}

EmailValues == {"", "ana@", "ana@acme.co"}

InputValues(field) ==
  IF field = "hourlyRate" THEN RateValues
  ELSE IF field = "email" THEN EmailValues
  ELSE TextValues

\* what is typed to fill an input in
TypedValues(field) ==
  IF field = "hourlyRate" THEN RateValues \ {0} ELSE InputValues(field) \ {""}

FormPages == {"edit", "new"}

FormOf(pg) == IF pg = "edit" THEN edit.form ELSE newp.form

\* the <form> is on screen: the edit page renders a spinner instead while
\* isLoadingProvider
FormRendered(pg) ==
  /\ mounted = pg
  /\ pg = "edit" => ~edit.isLoadingProvider

SetForm(pg, f) ==
  IF pg = "edit"
  THEN edit' = [edit EXCEPT !.form = f] /\ UNCHANGED newp
  ELSE newp' = [newp EXCEPT !.form = f] /\ UNCHANGED edit

TermsOf(pg) == IF pg = "edit" THEN edit.searchTerm ELSE newp.searchTerm

\* a change of the services array: the pickers are keyed by field.id, so
\* each keeps its state with its service
SetServices(pg, services, terms) ==
  IF pg = "edit"
  THEN edit' = [edit EXCEPT !.form.services = services, !.searchTerm = terms]
         /\ UNCHANGED newp
  ELSE newp' = [newp EXCEPT !.form.services = services, !.searchTerm = terms]
         /\ UNCHANGED edit

formFrame ==
  <<apiVars, location, hardNav, mounted, inst, providerId, summary,
    providers, inflight, sent, triggers, chart, guard>>

\* useFieldArray: append(value) and remove(index), 1-based here
append(arr, value) == Append(arr, value)

\* remove that drops the last entry whatever the index
removeLast(arr, index) == SubSeq(arr, 1, Len(arr) - 1)

remove(arr, index) ==
  [j \in 1..(Len(arr) - 1) |-> IF j < index THEN arr[j] ELSE arr[j + 1]]

\* 'Add Service'
AppendService(pg) ==
  /\ pg \in FormPages /\ FormRendered(pg)
  /\ Len(FormOf(pg).services) < MaxEntries
  /\ SetServices(pg, append(FormOf(pg).services, BlankService),
                 append(TermsOf(pg), <<>>))
  /\ lastOp' = [Op("appendService") EXCEPT !.index = Len(FormOf(pg).services) + 1]
  /\ UNCHANGED <<formFrame, edits>>

\* RemoveService whose button is rendered for a single entry too
RemoveServiceAlways(pg, index) ==
  /\ pg \in FormPages /\ FormRendered(pg)
  /\ Len(FormOf(pg).services) > 0
  /\ index \in 1..Len(FormOf(pg).services)
  /\ SetServices(pg, remove(FormOf(pg).services, index), remove(TermsOf(pg), index))
  /\ lastOp' = [Op("removeService") EXCEPT !.index = index]
  /\ UNCHANGED <<formFrame, edits>>

\* 'Remove' on service `index`, rendered only while there is more than one
RemoveService(pg, index) ==
  /\ pg \in FormPages /\ FormRendered(pg)
  /\ Len(FormOf(pg).services) > 1
  /\ index \in 1..Len(FormOf(pg).services)
  /\ SetServices(pg, remove(FormOf(pg).services, index), remove(TermsOf(pg), index))
  /\ lastOp' = [Op("removeService") EXCEPT !.index = index]
  /\ UNCHANGED <<formFrame, edits>>

\* 'Add Attribute'
AppendAttribute(pg) ==
  /\ pg \in FormPages /\ FormRendered(pg)
  /\ Len(FormOf(pg).attributes) < MaxEntries
  /\ SetForm(pg, [FormOf(pg) EXCEPT !.attributes = append(@, BlankAttribute)])
  /\ lastOp' = [Op("appendAttribute") EXCEPT !.index = Len(FormOf(pg).attributes) + 1]
  /\ UNCHANGED <<formFrame, edits>>

\* 'Remove' on attribute `index`, rendered only while there is more than one
RemoveAttribute(pg, index) ==
  /\ pg \in FormPages /\ FormRendered(pg)
  /\ Len(FormOf(pg).attributes) > 1
  /\ index \in 1..Len(FormOf(pg).attributes)
  /\ SetForm(pg, [FormOf(pg) EXCEPT !.attributes = remove(@, index)])
  /\ lastOp' = [Op("removeAttribute") EXCEPT !.index = index]
  /\ UNCHANGED <<formFrame, edits>>

\* typing into a registered input of a service: name or hourlyRate
InputService(pg, index, field, value) ==
  /\ pg \in FormPages /\ FormRendered(pg)
  /\ edits < MaxEdits
  /\ index \in 1..Len(FormOf(pg).services)
  /\ field \in {"name", "hourlyRate"}
  /\ value \in InputValues(field)
  /\ FormOf(pg).services[index][field] # value
  /\ SetForm(pg, [FormOf(pg) EXCEPT !.services[index][field] = value])
  /\ edits' = edits + 1
  /\ lastOp' = [Op("inputService") EXCEPT !.index = index]
  /\ UNCHANGED formFrame

\* typing into a registered input of an attribute: key or value
InputAttribute(pg, index, field, value) ==
  /\ pg \in FormPages /\ FormRendered(pg)
  /\ edits < MaxEdits
  /\ index \in 1..Len(FormOf(pg).attributes)
  /\ field \in {"key", "value"}
  /\ value \in InputValues(field)
  /\ FormOf(pg).attributes[index][field] # value
  /\ SetForm(pg, [FormOf(pg) EXCEPT !.attributes[index][field] = value])
  /\ edits' = edits + 1
  /\ lastOp' = [Op("inputAttribute") EXCEPT !.index = index]
  /\ UNCHANGED formFrame

\* the characters of the country names the model uses
Chars(name) ==
  CASE name = "Colombia" -> <<"C", "o", "l", "o", "m", "b", "i", "a">>
    [] name = "United States" ->
         <<"U", "n", "i", "t", "e", "d", " ", "S", "t", "a", "t", "e", "s">>
    [] OTHER -> <<>>

\* String.prototype.toLowerCase on the characters the model uses
LowerChar(c) ==
  CASE c = "C" -> "c" [] c = "U" -> "u" [] c = "S" -> "s" [] c = "T" -> "t"
    [] c = "O" -> "o" [] OTHER -> c

toLowerCase(str) == [i \in 1..Len(str) |-> LowerChar(str[i])]

\* String.prototype.includes
Contains(str, part) ==
  \E k \in 0..(Len(str) - Len(part)) : SubSeq(str, k + 1, k + Len(part)) = part

\* what the user types into 'Search countries...'
SearchTerms == {<<>>, <<"c", "o">>, <<"S", "T">>, <<"x">>}

\* filteredCountries comparing without toLowerCase
filteredCountriesCaseSensitive(countries, searchTerm) ==
  IF searchTerm # <<>>
  THEN SelectSeq(countries, LAMBDA country : Contains(Chars(country.name), searchTerm))
  ELSE countries

\* filteredCountries of the Controller render
filteredCountries(countries, searchTerm) ==
  IF searchTerm # <<>>
  THEN SelectSeq(countries,
                 LAMBDA country :
                   Contains(toLowerCase(Chars(country.name)), toLowerCase(searchTerm)))
  ELSE countries

\* the country picker of a service (Controller render)
CountriesOf(pg) == IF pg = "edit" THEN edit.countries ELSE newp.countries

\* the picker is rendered in place of 'Loading countries...'
PickerRendered(pg) ==
  /\ FormRendered(pg)
  /\ ~(IF pg = "edit" THEN edit.isLoadingCountries ELSE newp.isLoadingCountries)

\* Array.prototype.includes and filter((v) => v !== code)
includes(arr, v) == \E j \in 1..Len(arr) : arr[j] = v
without(arr, code) == SelectSeq(arr, LAMBDA v : v # code)

\* the dropdown of picker `index`: filteredCountries.map, with null for a
\* country whose code field.value includes
OfferedOptions(pg, index) ==
  SelectSeq(filteredCountries(CountriesOf(pg), TermsOf(pg)[index]),
            LAMBDA country :
              ~includes(FormOf(pg).services[index].countryCodes, country.code))

\* typing into 'Search countries...': setSearchTerm(e.target.value)
SetSearchTerm(pg, index, term) ==
  /\ pg \in FormPages /\ PickerRendered(pg)
  /\ edits < MaxEdits
  /\ index \in 1..Len(FormOf(pg).services)
  /\ term \in SearchTerms
  /\ TermsOf(pg)[index] # term
  /\ IF pg = "edit"
     THEN edit' = [edit EXCEPT !.searchTerm[index] = term] /\ UNCHANGED newp
     ELSE newp' = [newp EXCEPT !.searchTerm[index] = term] /\ UNCHANGED edit
  /\ edits' = edits + 1
  /\ lastOp' = [Op("setSearchTerm") EXCEPT !.index = index]
  /\ UNCHANGED formFrame

\* click on a country of the dropdown: field.onChange([...field.value, country.code])
SelectCountry(pg, index, k) ==
  /\ pg \in FormPages /\ PickerRendered(pg)
  /\ edits < MaxEdits
  /\ index \in 1..Len(FormOf(pg).services)
  /\ k \in 1..Len(CountriesOf(pg))
  /\ includes(OfferedOptions(pg, index), CountriesOf(pg)[k])
  /\ SetForm(pg, [FormOf(pg) EXCEPT
                    !.services[index].countryCodes = Append(@, CountriesOf(pg)[k].code)])
  /\ edits' = edits + 1
  /\ lastOp' = [Op("selectCountry") EXCEPT !.index = index]
  /\ UNCHANGED formFrame

\* click on the x of chip j: field.onChange(field.value.filter((v) => v !== code))
RemoveChip(pg, index, j) ==
  /\ pg \in FormPages /\ PickerRendered(pg)
  /\ edits < MaxEdits
  /\ index \in 1..Len(FormOf(pg).services)
  /\ j \in 1..Len(FormOf(pg).services[index].countryCodes)
  /\ SetForm(pg, [FormOf(pg) EXCEPT
                    !.services[index].countryCodes = without(@, @[j])])
  /\ edits' = edits + 1
  /\ lastOp' = [Op("removeChip") EXCEPT !.index = index]
  /\ UNCHANGED formFrame

\* the registered top-level inputs: nit (disabled on the edit form), name, email
ProviderInputs(pg) == IF pg = "edit" THEN {"name", "email"} ELSE {"nit", "name", "email"}

\* typing into a registered top-level input
InputProvider(pg, field, value) ==
  /\ pg \in FormPages /\ FormRendered(pg)
  /\ edits < MaxEdits
  /\ field \in ProviderInputs(pg)
  /\ value \in InputValues(field)
  /\ FormOf(pg)[field] # value
  /\ SetForm(pg, [FormOf(pg) EXCEPT ![field] = value])
  /\ edits' = edits + 1
  /\ lastOp' = Op("inputProvider")
  /\ UNCHANGED formFrame

\* the requests a form page sent when it was opened by its URL: mounting it
\* is the first trigger of the run
LoadedRequest(n, pg, op, path) ==
  [rid |-> n, trigger |-> 1, inst |-> 1, page |-> pg, op |-> op,
   method |-> "GET", path |-> path, params |-> <<>>, body |-> <<>>,
   auth |-> NoHeader, stored |-> Null]

LoadedSent(pg, id) ==
  IF pg = "edit"
  THEN { LoadedRequest(1, "edit", "provider", "/Provider/" \o id),
         LoadedRequest(2, "edit", "country", "/Country") }
  ELSE { LoadedRequest(1, "new", "country", "/Country") }

\* a form page as it stands once its fetches have been answered: the
\* new-provider page with its defaults, or the edit page with a provider
\* loaded by reset(formData)
InitForm ==
  /\ storage = EmptyStorage
  /\ storageKeysTouched = {}
  /\ lastTokenEvent = "none"
  /\ hardNav = FALSE
  /\ summary = InitSummary
  /\ providers = InitProviders
  /\ inflight = {}
  /\ inst = 1
  /\ lastOp = Op("init")
  /\ edits = 0
  /\ chart = NoChart
  /\ guard = NoGuard
  /\ \/ /\ mounted = "new"
        /\ triggers = <<"mountNew">>
        /\ sent = LoadedSent("new", "")
        /\ location = "/providers/new"
        /\ providerId = ""
        /\ newp = [InitNew EXCEPT !.countries = CountryList,
                                  !.isLoadingCountries = FALSE]
        /\ edit = InitEdit
     \/ \E id \in RouteIds :
          /\ mounted = "edit"
          /\ triggers = <<"mountEdit">>
          /\ sent = LoadedSent("edit", id)
          /\ location = EditRoute(id)
          /\ providerId = id
          /\ edit = [InitEdit EXCEPT !.form = FormData(ProviderOf(id)),
                                     !.searchTerm = BlankTerms(Len(ProviderOf(id).services)),
                                     !.isLoadingProvider = FALSE,
                                     !.countries = CountryList,
                                     !.isLoadingCountries = FALSE]
          /\ newp = InitNew

NextForm ==
  \/ \E pg \in FormPages : AppendService(pg)
  \/ \E pg \in FormPages, index \in 1..(MaxEntries + 1) : RemoveService(pg, index)
  \/ \E pg \in FormPages : AppendAttribute(pg)
  \/ \E pg \in FormPages, index \in 1..(MaxEntries + 1) : RemoveAttribute(pg, index)
  \/ \E pg \in FormPages, index \in 1..(MaxEntries + 1),
        field \in {"name", "hourlyRate"} :
       \E value \in TypedValues(field) : InputService(pg, index, field, value)
  \/ \E pg \in FormPages, index \in 1..(MaxEntries + 1),
        field \in {"key", "value"} :
       \E value \in TypedValues(field) : InputAttribute(pg, index, field, value)

SpecForm == InitForm /\ [][NextForm]_vars

\* the country pickers of a form: services are added and removed, countries
\* are searched and selected and their chips removed
NextPicker ==
  \/ \E pg \in FormPages : AppendService(pg)
  \/ \E pg \in FormPages, index \in 1..(MaxEntries + 1) : RemoveService(pg, index)
  \/ \E pg \in FormPages, index \in 1..(MaxEntries + 1),
        k \in 1..Len(CountryList) : SelectCountry(pg, index, k)
  \/ \E pg \in FormPages, index \in 1..(MaxEntries + 1),
        j \in 1..(Len(CountryList) + 1) : RemoveChip(pg, index, j)
  \/ \E pg \in FormPages, index \in 1..(MaxEntries + 1), term \in SearchTerms :
       SetSearchTerm(pg, index, term)

SpecPicker == InitForm /\ [][NextPicker]_vars

\* the form pages with their submit buttons: attributes are added and typed
\* into, the email is retyped, the new-provider form is filled in, and the
\* form is submitted, again after a failure
NextSubmit ==
  \/ \E pg \in FormPages : AppendAttribute(pg)
  \/ \E pg \in FormPages, index \in 1..(MaxEntries + 1),
        field \in {"key", "value"} :
       \E value \in TypedValues(field) : InputAttribute(pg, index, field, value)
  \/ \E pg \in FormPages, value \in InputValues("email") :
       InputProvider(pg, "email", value)
  \/ FillNewForm
  \/ EditOnSubmit
  \/ \E r \in inflight, res \in {Ok(<<>>)} \cup Failures :
       EditOnSubmitResponse(r, res)
  \/ NewOnSubmit
  \/ \E r \in inflight, res \in {Ok(<<>>)} \cup Failures :
       NewOnSubmitResponse(r, res)

SpecSubmit == InitForm /\ [][NextSubmit]_vars

\* the edit form after the user typed a name, an email and one complete
\* service and attribute over whatever it held (the inputs registered on the
\* edit form and its country picker, taken as one step); id and nit have no
\* enabled input and keep their values
FilledEditForm(f) ==
  [f EXCEPT !.name = FilledNewForm.name,
            !.email = FilledNewForm.email,
            !.services = FilledNewForm.services,
            !.attributes = FilledNewForm.attributes]

FillEditForm ==
  /\ FormRendered("edit")
  /\ ~hardNav
  /\ ~edit.isLoadingCountries
  /\ \A i \in 1..Len(FilledNewForm.services) :
       \A j \in 1..Len(FilledNewForm.services[i].countryCodes) :
         \E k \in 1..Len(edit.countries) :
           edit.countries[k].code = FilledNewForm.services[i].countryCodes[j]
  /\ edit.form # FilledEditForm(edit.form)
  /\ edit' = [edit EXCEPT !.form = FilledEditForm(edit.form),
                          !.searchTerm = BlankTerms(Len(FilledNewForm.services))]
  /\ lastOp' = Op("fillEditForm")
  /\ UNCHANGED <<apiVars, location, hardNav, mounted, inst, providerId,
                 summary, providers, newp, inflight, sent, triggers, edits,
                 chart, guard>>

\* the browser was pointed at /providers/{id}: nothing is mounted yet
InitLoad ==
  /\ storage = EmptyStorage
  /\ storageKeysTouched = {}
  /\ lastTokenEvent = "none"
  /\ \E id \in RouteIds : location = EditRoute(id)
  /\ hardNav = FALSE
  /\ mounted = "none"
  /\ inst = 0
  /\ providerId = ""
  /\ summary = InitSummary
  /\ providers = InitProviders
  /\ edit = InitEdit
  /\ newp = InitNew
  /\ inflight = {}
  /\ sent = {}
  /\ triggers = <<>>
  /\ lastOp = Op("init")
  /\ edits = 0
  /\ chart = NoChart
  /\ guard = NoGuard

\* the edit page from its mount on: its two fetches are answered in either
\* order while the user does whatever the page lets them do
NextLoad ==
  \/ \E id \in RouteIds : MountEdit(id)
  \/ \E r \in inflight :
       \E res \in {Ok(<<ProviderOf(id)>>) : id \in RouteIds} \cup FetchFailures :
         FetchProvider(r, res)
  \/ \E r \in inflight, res \in {Ok(CountryList)} \cup FetchFailures :
       EditFetchCountries(r, res)
  \/ FillEditForm
  \/ \E value \in TypedValues("email") : InputProvider("edit", "email", value)
  \/ \E index \in 1..(MaxEntries + 1) : RemoveService("edit", index)
  \/ AppendAttribute("edit")
  \/ EditOnSubmit
  \/ \E r \in inflight, res \in {Ok(<<>>)} \cup Failures :
       EditOnSubmitResponse(r, res)

SpecLoad == InitLoad /\ [][NextLoad]_vars

\* ------------------------------------- SummaryPage rendering (lib/types.ts)
\* String.prototype.toUpperCase on the characters the model uses
UpperChar(c) ==
  CASE c = "c" -> "C" [] c = "o" -> "O" [] c = "u" -> "U" [] c = "s" -> "S"
    [] c = "m" -> "M" [] c = "x" -> "X" [] OTHER -> c

toUpperCase(str) == [i \in 1..Len(str) |-> UpperChar(str[i])]

RECURSIVE trimStart(_)
trimStart(str) ==
  IF str # <<>> /\ Head(str) = " " THEN trimStart(Tail(str)) ELSE str

RECURSIVE trimEnd(_)
trimEnd(str) ==
  IF str # <<>> /\ str[Len(str)] = " "
  THEN trimEnd(SubSeq(str, 1, Len(str) - 1))
  ELSE str

\* String.prototype.trim
trim(str) == trimEnd(trimStart(str))

\* getCountryName of the summary page: the name of the first country whose
\* upper-cased code equals the trimmed, upper-cased input, else the input
getCountryName(countries, code) ==
  LET normalizedCode == toUpperCase(trim(code))
      hits == {i \in 1..Len(countries) : toUpperCase(countries[i].code) = normalizedCode}
  IN  IF hits = {} THEN code
      ELSE countries[CHOOSE i \in hits : \A j \in hits : i <= j].name

\* getCountryName of the providers list: the parameter is reassigned to its
\* upper-cased, trimmed value, the countries are searched for a code equal
\* to it, and without a hit the reassigned parameter is returned
ProvidersGetCountryName(countries, countryCode) ==
  LET normalized == trim(toUpperCase(countryCode))
      hits == {i \in 1..Len(countries) : countries[i].code = normalized}
  IN  IF hits = {} THEN normalized
      ELSE countries[CHOOSE i \in hits : \A j \in hits : i <= j].name

\* Array.prototype.sort with (a, b) => b.count - a.count: a stable sort,
\* here by insertion of each row behind the rows it does not precede
RECURSIVE sortByCount(_)
sortByCount(rows) ==
  IF rows = <<>> THEN <<>>
  ELSE LET sorted == sortByCount(SubSeq(rows, 1, Len(rows) - 1))
           row == rows[Len(rows)]
           \* rows that stay in front of `row`: compare(row, x) >= 0
           front == {i \in 1..Len(sorted) : sorted[i].count - row.count >= 0}
           k == Cardinality({i \in 1..Len(sorted) :
                               \A j \in 1..i : j \in front})
       IN  SubSeq(sorted, 1, k) \o <<row>> \o SubSeq(sorted, k + 1, Len(sorted))

\* transformDataForChart without the sort
transformUnsorted(countries, data) ==
  IF data = <<>> THEN <<>>
  ELSE [i \in 1..Len(data[1]) |->
          [country |-> getCountryName(countries, data[1][i][1]),
           code |-> data[1][i][1],
           count |-> data[1][i][2]]]

\* transformDataForChart: `data` is the optional record (<<>> is undefined),
\* a record being its entries in Object.entries order
transformDataForChart(countries, data) ==
  IF data = <<>> THEN <<>>
  ELSE sortByCount(
         [i \in 1..Len(data[1]) |->
            [country |-> getCountryName(countries, data[1][i][1]),
             code |-> data[1][i][1],
             count |-> data[1][i][2]]])

\* summaryData?.providersByCountry and summaryData?.servicesByCountry
ByCountry(field) ==
  IF summary.summaryData = <<>> THEN <<>> ELSE <<summary.summaryData[1][field]>>

\* one render of the loaded summary page
RenderSummary ==
  /\ mounted = "summary"
  /\ ~summary.isLoading
  /\ lastOp.kind # "render"
  /\ chart' = [providers |-> transformDataForChart(summary.countries,
                                                   ByCountry("providersByCountry")),
               services |-> transformDataForChart(summary.countries,
                                                  ByCountry("servicesByCountry"))]
  /\ lastOp' = Op("render")
  /\ UNCHANGED <<apiVars, location, hardNav, mounted, inst, providerId,
                 summary, providers, edit, newp, inflight, sent, triggers, edits,
                 guard>>

\* country codes as a backend may spell them in a summary record
ChartCodes == {CO, <<"u", "s">>, <<" ", "M", "X">>, <<"P", "E">>}

\* the records with at most MaxChartKeys keys and counts up to MaxCount
ChartRecords ==
  UNION { { rec \in [1..n -> ChartCodes \X (0..MaxCount)] :
              \A i, j \in 1..n : i # j => rec[i][1] # rec[j][1] } :
          n \in 0..MaxChartKeys }

\* the summary page once fetchData has finished: with the data of any such
\* backend, or with none when GET /Summary failed
InitChart ==
  /\ storage = EmptyStorage
  /\ storageKeysTouched = {}
  /\ lastTokenEvent = "none"
  /\ location = "/summary"
  /\ hardNav = FALSE
  /\ mounted = "summary"
  /\ inst = 1
  /\ providerId = ""
  /\ providers = InitProviders
  /\ edit = InitEdit
  /\ newp = InitNew
  /\ inflight = {}
  /\ sent = {}
  /\ triggers = <<>>
  /\ lastOp = Op("init")
  /\ edits = 0
  /\ chart = NoChart
  /\ guard = NoGuard
  /\ \/ summary = [InitSummary EXCEPT
                     !.isLoading = FALSE,
                     !.error = "Failed to load summary data. Please try again later."]
     \/ \E rec \in ChartRecords, countries \in {<<>>, CountryList} :
          summary = [InitSummary EXCEPT
                       !.isLoading = FALSE,
                       !.countries = countries,
                       !.summaryData =
                          <<[providersByCountry |-> rec,
                             servicesByCountry |-> SummaryResponse.servicesByCountry]>>]

NextChart == RenderSummary

SpecChart == InitChart /\ [][NextChart]_vars

\* ------------------------------------------------------------ the program
\* the longest country code the helpers are applied to
MaxCodeLen == 3

RECURSIVE Strings(_, _)
Strings(alphabet, n) ==
  IF n = 0 THEN {<<>>}
  ELSE LET shorter == Strings(alphabet, n - 1)
       IN  shorter \cup {Append(s, c) : s \in shorter, c \in alphabet}

\* country codes as a provider's service or a summary record may spell them
NameCodes == Strings({"C", "o", " "}, MaxCodeLen)

\* what GET /Country may have answered: codes in upper case, or as typed
NameCountries ==
  { <<>>, CountryList,
    <<[code |-> <<"c", "o">>, name |-> "Colombia"]>>,
    <<[code |-> COPadded, name |-> "Colombia"]>> }

\* both pages hold the same country list and are about to render the same code
InitNames ==
  /\ storage = EmptyStorage
  /\ storageKeysTouched = {}
  /\ lastTokenEvent = "none"
  /\ location = "/"
  /\ hardNav = FALSE
  /\ mounted = "none"
  /\ inst = 0
  /\ providerId = ""
  /\ edit = InitEdit
  /\ newp = InitNew
  /\ inflight = {}
  /\ sent = {}
  /\ triggers = <<>>
  /\ lastOp = Op("init")
  /\ edits = 0
  /\ guard = NoGuard
  /\ \E countries \in NameCountries, code \in NameCodes :
       /\ summary = [InitSummary EXCEPT !.isLoading = FALSE, !.countries = countries]
       /\ providers = [InitProviders EXCEPT !.isLoading = FALSE,
                                            !.isLoadingCountries = FALSE,
                                            !.countries = countries]
       /\ chart = [code |-> code, summary |-> <<>>, providers |-> <<>>]

\* each page's helper names the code
RenderCountryName ==
  /\ lastOp.kind = "init"
  /\ chart' = [chart EXCEPT
                 !.summary = <<getCountryName(summary.countries, chart.code)>>,
                 !.providers = <<ProvidersGetCountryName(providers.countries, chart.code)>>]
  /\ lastOp' = Op("renderCountryName")
  /\ UNCHANGED <<apiVars, location, hardNav, mounted, inst, providerId,
                 summary, providers, edit, newp, inflight, sent, triggers,
                 edits, guard>>

NextNames == RenderCountryName

SpecNames == InitNames /\ [][NextNames]_vars

Next ==
  \/ MountHome
  \/ PageLoadLogin
  \/ MountSummary
  \/ \E r \in inflight, res \in {Ok(<<SummaryResponse>>)} \cup FetchFailures :
       FetchDataSummary(r, res)
  \/ \E r \in inflight, res \in {Ok(CountryList)} \cup FetchFailures :
       FetchDataCountry(r, res)
  \/ MountProviders
  \/ \E newPage \in 0..(MaxTriggers + 1) : HandlePageChange(newPage)
  \/ \E r \in inflight :
       \E res \in {Ok(<<ProviderPage(p)>>) : p \in 1..(MaxTriggers + 1)} \cup FetchFailures :
         FetchProviders(r, res)
  \/ \E r \in inflight, res \in {Ok(CountryList)} \cup FetchFailures :
       ProvidersFetchCountries(r, res)
  \/ \E id \in RouteIds : MountEdit(id)
  \/ \E r \in inflight :
       \E res \in {Ok(<<ProviderOf(id)>>) : id \in RouteIds} \cup FetchFailures :
         FetchProvider(r, res)
  \/ \E r \in inflight, res \in {Ok(CountryList)} \cup FetchFailures :
       EditFetchCountries(r, res)
  \/ EditOnSubmit
  \/ \E r \in inflight, res \in {Ok(<<>>)} \cup Failures :
       EditOnSubmitResponse(r, res)
  \/ MountNew
  \/ \E r \in inflight, res \in {Ok(CountryList)} \cup FetchFailures :
       NewFetchCountries(r, res)
  \/ FillNewForm
  \/ NewOnSubmit
  \/ \E r \in inflight, res \in {Ok(<<>>)} \cup Failures :
       NewOnSubmitResponse(r, res)
  \/ Login
  \/ \E r \in inflight :
       \E res \in {Ok(<<[token |-> t]>>) : t \in LoginTokens} \cup FetchFailures :
         LoginResponse(r, res)
  \/ Logout

Spec == Init /\ [][Next]_vars

\* ------------------------------------------------------------ rendering
\* the error message the mounted page holds in its state; the providers
\* list has no error state at all
PageError ==
  CASE mounted = "summary" -> summary.error
    [] mounted = "edit" -> edit.error
    [] mounted = "new" -> newp.error
    [] OTHER -> Null

\* the continuations that end a network call of a page
FetchKinds ==
  {"fetchDataSummary", "fetchDataCountry", "fetchProviders",
   "providersFetchCountries", "fetchProvider", "editFetchCountries",
   "editOnSubmit", "newFetchCountries", "newOnSubmit"}

\* the literal each catch block passes to setError
FixedMessage(kind) ==
  CASE kind \in {"fetchDataSummary", "fetchDataCountry"} ->
         "Failed to load summary data. Please try again later."
    [] kind = "fetchProvider" -> "Error loading provider data"
    [] kind = "editOnSubmit" -> "Failed to update provider"
    [] kind = "newFetchCountries" -> "Failed to load countries. Please try again."
    [] kind = "newOnSubmit" -> "Failed to create provider"
    [] OTHER -> Null

\* the state right after the handler of a failed call has run on a page
\* that is still mounted
FailedCall(kind) == lastOp.kind = kind /\ ~lastOp.ok /\ lastOp.alive

\* the requests of trigger t, outstanding and ever sent
Outstanding(t) == {r \in inflight : r.trigger = t}
SentBy(t, op) == {r \in sent : r.trigger = t /\ r.op = op}

\* ------------------------------------------------------------------ claims

\* C1 (as stated): in every reachable state, the requests in flight that
\* were started by one user action or page mount number at most 1.
C1_AtMostOneOutstanding ==
  \A t \in 1..Len(triggers) : Cardinality(Outstanding(t)) <= 1

\* C1 (amended): mounting or changing page on the providers list and
\* mounting the edit page have at most two requests in flight (GET /Country
\* next to GET /Provider resp. GET /Provider/{id}); every other trigger
\* (summary mount, new-provider mount, submit, login) has at most one.
C1_OutstandingPerTrigger ==
  \A t \in 1..Len(triggers) :
    Cardinality(Outstanding(t)) <=
      IF triggers[t] \in {"mountProviders", "pageChange", "mountEdit"} THEN 2 ELSE 1

\* two requests of one mount in flight, and a summary mount with its one
C1_Witness ==
  \E t, u \in 1..Len(triggers) :
    /\ triggers[t] \in {"mountProviders", "mountEdit"}
    /\ Cardinality(Outstanding(t)) = 2
    /\ triggers[u] = "mountSummary"
    /\ Cardinality(Outstanding(u)) = 1

\* C2 (as stated): whenever a request of a page has failed and its handler
\* has finished, the page holds a non-empty error message.
C2_FailureSurfaced ==
  \A kind \in FetchKinds : FailedCall(kind) => Truthy(PageError)

\* C3 (as stated): the message shown after a failed call is the fixed
\* constant of that page and operation, whatever the server answered.
C3_FixedMessage ==
  \A kind \in FetchKinds :
    FailedCall(kind) /\ Truthy(FixedMessage(kind)) => PageError = FixedMessage(kind)

\* C3 (amended): after a failed load the message is the fixed constant of
\* the page and operation; after a failed create or update it is the
\* message field of the server's error response when that is non-empty,
\* and the fixed constant otherwise.
C3_MessageShown ==
  \A kind \in FetchKinds :
    FailedCall(kind) /\ Truthy(FixedMessage(kind)) =>
      PageError = IF kind \in {"editOnSubmit", "newOnSubmit"} /\ Truthy(lastOp.message)
                  THEN lastOp.message
                  ELSE FixedMessage(kind)

\* a failed update whose response carried a message, which is what the
\* edit page now shows
C3_Witness ==
  /\ FailedCall("editOnSubmit")
  /\ Truthy(lastOp.message)
  /\ edit.error = lastOp.message
  /\ edit.error # FixedMessage("editOnSubmit")

\* the requests a trigger issues when it happens
IssuedBy(kind) ==
  CASE kind = "mountSummary" -> {"summary"}
    [] kind \in {"mountProviders", "pageChange"} -> {"country", "providerList"}
    [] kind = "mountEdit" -> {"provider", "country"}
    [] kind = "mountNew" -> {"country"}
    [] kind = "submitEdit" -> {"update"}
    [] kind = "submitNew" -> {"create"}
    [] kind = "login" -> {"login"}
    [] OTHER -> {}

RequestOps ==
  {"summary", "country", "providerList", "provider", "update", "create", "login"}

\* C4: no request is retried.  Every trigger has sent each request it
\* issues exactly once, whatever has failed since; the summary mount
\* sends its GET /Country at most once, after GET /Summary was answered;
\* no trigger sends anything else.
C4_NoRetry ==
  \A t \in 1..Len(triggers) : \A op \in RequestOps :
    LET n == Cardinality(SentBy(t, op))
    IN  IF op \in IssuedBy(triggers[t]) THEN n = 1
        ELSE IF triggers[t] = "mountSummary" /\ op = "country"
        THEN n <= 1 /\ (n = 1 => ~\E r \in inflight : r.trigger = t /\ r.op = "summary")
        ELSE n = 0

\* a provider-list request has just failed, and its trigger has sent no
\* second one
C4_Witness ==
  /\ lastOp.kind = "fetchProviders" /\ ~lastOp.ok
  /\ \E r \in sent :
       /\ r.rid = lastOp.rid
       /\ r \notin inflight
       /\ SentBy(r.trigger, "providerList") = {r}

\* C5: every request sent while a non-empty auth_token is stored carries
\* Authorization = 'Bearer ' + that token, and a request sent while no
\* token is stored carries no Authorization header.
C5_BearerHeader ==
  \A r \in sent :
    /\ Truthy(r.stored) => r.auth = "Bearer " \o r.stored
    /\ r.stored = Null => r.auth = NoHeader

\* a request sent before login without header, and one sent after with it
C5_Witness ==
  \E r1, r2 \in sent :
    /\ r1.stored = Null /\ r1.auth = NoHeader
    /\ r2.stored = "tokA" /\ r2.auth = "Bearer tokA"
    /\ r1.rid < r2.rid

\* C6: isAuthenticated() is true exactly when a non-empty auth_token is in
\* storage, which is exactly when the last event that wrote or removed the
\* token (login with a token, logout, 401 response) was such a login.
C6_AuthFlag ==
  /\ isAuthenticated <=> (AuthTokenKey \in DOMAIN storage /\ storage[AuthTokenKey] # "")
  /\ isAuthenticated <=> lastTokenEvent = "login"

\* a login has just stored its token
C6_Witness ==
  /\ lastOp.kind = "login" /\ lastOp.ok
  /\ lastTokenEvent = "login"
  /\ isAuthenticated

\* C7: the only storage key ever written or removed is auth_token, storage
\* holds nothing but a token, and a page that is not mounted holds no data.
C7_NoDurableData ==
  /\ storageKeysTouched \subseteq {AuthTokenKey}
  /\ DOMAIN storage \subseteq {AuthTokenKey}
  /\ \A k \in DOMAIN storage : storage[k] \in LoginTokens \ {Null, ""}
  /\ mounted # "summary" => summary = InitSummary
  /\ mounted # "providers" => providers = InitProviders
  /\ mounted # "edit" => edit = InitEdit
  /\ mounted # "new" => newp = InitNew

\* a token is stored, the list page was loaded and then left for the edit
\* page, which holds the provider it fetched
C7_Witness ==
  /\ storageKeysTouched = {AuthTokenKey}
  /\ isAuthenticated
  /\ mounted = "edit"
  /\ edit.form.id # ""
  /\ \E r \in sent : r.op = "providerList"

\* the endpoints section 6 lists
ListedEndpoints ==
  {"/Auth/login", "/Provider", "/Provider/with-details", "/Country", "/Summary"}
    \cup {"/Provider/" \o id : id \in RouteIds}

\* C8 (as stated): every request goes to a listed endpoint; login goes to
\* /Auth/login, the provider list, creation and update go to /Provider and
\* a single provider is read from /Provider/{id}.
C8_EndpointsAsListed ==
  \A r \in sent :
    /\ r.path \in ListedEndpoints
    /\ r.op = "login" => r.path = "/Auth/login"
    /\ r.op \in {"providerList", "create", "update"} => r.path = "/Provider"
    /\ r.op = "provider" => \E id \in RouteIds : r.path = "/Provider/" \o id

\* C8 (amended): every request goes to a listed endpoint; login is POST
\* /Auth/login, the provider list is GET /Provider, a single provider is
\* GET /Provider/{id}, creation is POST /Provider/with-details and update
\* is PUT /Provider/{id} with the id of the edited provider.
C8_Endpoints ==
  \A r \in sent :
    /\ r.path \in ListedEndpoints
    /\ r.op = "login" => r.method = "POST" /\ r.path = "/Auth/login"
    /\ r.op = "providerList" => r.method = "GET" /\ r.path = "/Provider"
    /\ r.op = "provider" =>
         r.method = "GET" /\ \E id \in RouteIds : r.path = "/Provider/" \o id
    /\ r.op = "create" => r.method = "POST" /\ r.path = "/Provider/with-details"
    /\ r.op = "update" => r.method = "PUT" /\ r.path = "/Provider/" \o r.body[1].id
    /\ r.op = "country" => r.method = "GET" /\ r.path = "/Country"
    /\ r.op = "summary" => r.method = "GET" /\ r.path = "/Summary"

\* an update has been sent for the provider the edit page shows
C8_Witness ==
  \E r \in sent :
    /\ r.op = "update"
    /\ r.path = "/Provider/" \o providerId
    /\ mounted = "edit"

FormOfNext(pg) == IF pg = "edit" THEN edit'.form ELSE newp'.form

\* C9: on both forms, Add Service / Add Attribute appends exactly one blank
\* entry at the end and changes nothing else; Remove at index i deletes
\* exactly entry i, keeps the other entries in their order and leaves the
\* other array and the scalar fields alone.
C9_AppendRemove ==
  [][ LET old == FormOf(mounted)
          new == FormOfNext(mounted)
          i == lastOp'.index
      IN  /\ lastOp'.kind = "appendService" =>
               new = [old EXCEPT !.services = old.services \o <<BlankService>>]
          /\ lastOp'.kind = "appendAttribute" =>
               new = [old EXCEPT !.attributes = old.attributes \o <<BlankAttribute>>]
          /\ lastOp'.kind = "removeService" =>
               /\ i \in 1..Len(old.services)
               /\ Len(new.services) = Len(old.services) - 1
               /\ \A j \in 1..Len(new.services) :
                    new.services[j] = IF j < i THEN old.services[j] ELSE old.services[j + 1]
               /\ new = [old EXCEPT !.services = new.services]
          /\ lastOp'.kind = "removeAttribute" =>
               /\ i \in 1..Len(old.attributes)
               /\ Len(new.attributes) = Len(old.attributes) - 1
               /\ \A j \in 1..Len(new.attributes) :
                    new.attributes[j] =
                      IF j < i THEN old.attributes[j] ELSE old.attributes[j + 1]
               /\ new = [old EXCEPT !.attributes = new.attributes]
    ]_vars

\* the middle one of three services has just been removed: a loaded
\* service is still first and the appended blank one has moved up
C9_Witness ==
  /\ lastOp.kind = "removeService"
  /\ lastOp.index = 2
  /\ Len(FormOf(mounted).services) = 2
  /\ FormOf(mounted).services[1].name = "Hosting"
  /\ FormOf(mounted).services[2] = BlankService

RECURSIVE SumOf(_)
SumOf(numbers) ==
  IF numbers = <<>> THEN 0 ELSE Head(numbers) + SumOf(Tail(numbers))

\* what C10 says of one record (optional, <<>> when undefined) and its rows
ChartRowsOf(data, rows) ==
  IF data = <<>> THEN rows = <<>>
  ELSE LET entries == data[1]
       IN  /\ Len(rows) = Len(entries)
           /\ \A i \in 1..Len(entries) :
                /\ Cardinality({j \in 1..Len(rows) : rows[j].code = entries[i][1]}) = 1
                /\ \E j \in 1..Len(rows) :
                     rows[j].code = entries[i][1] /\ rows[j].count = entries[i][2]
           /\ SumOf([j \in 1..Len(rows) |-> rows[j].count])
                = SumOf([i \in 1..Len(entries) |-> entries[i][2]])
           /\ \A j \in 1..(Len(rows) - 1) : rows[j].count >= rows[j + 1].count

\* C10: transformDataForChart yields exactly one row per key of the record,
\* carrying the key and its count unchanged (so the counts sum to the same
\* total), ordered by count non-increasing; undefined yields the empty list.
C10_ChartRows ==
  lastOp.kind = "render" =>
    /\ ChartRowsOf(ByCountry("providersByCountry"), chart.providers)
    /\ ChartRowsOf(ByCountry("servicesByCountry"), chart.services)

\* a record of three keys was rendered and the sort moved its first key
C10_Witness ==
  /\ lastOp.kind = "render"
  /\ Len(chart.providers) = 3
  /\ chart.providers[1].code # summary.summaryData[1].providersByCountry[1][1]
  /\ chart.providers[1].count > chart.providers[3].count

\* the requests of the mounted component instance still in flight for `op`
Pending(op) == {r \in inflight : Alive(r) /\ r.op = op}

\* C11: on a mounted summary, providers-list or edit page, a loading flag is
\* true only while a request of that page instance that clears it is still
\* in flight; once they have all completed, with either outcome, every
\* loading flag is false and the spinner is gone.
C11_LoadingTerminates ==
  /\ mounted = "summary" /\ Pending("summary") \cup Pending("country") = {}
       => ~summary.isLoading
  /\ mounted = "providers" /\ Pending("providerList") = {} => ~providers.isLoading
  /\ mounted = "providers" /\ Pending("country") = {}
       => ~providers.isLoadingCountries
  /\ mounted = "edit" /\ Pending("provider") = {} => ~edit.isLoadingProvider
  /\ mounted = "edit" /\ Pending("country") = {} => ~edit.isLoadingCountries

\* the provider fetch of the edit page has just failed, nothing of the page
\* is in flight any more, and the form is shown instead of the spinner
C11_Witness ==
  /\ FailedCall("fetchProvider")
  /\ mounted = "edit"
  /\ \A r \in inflight : ~Alive(r)
  /\ ~edit.isLoadingProvider /\ ~edit.isLoadingCountries

\* a form entry as appendService / appendAttribute adds it, still untouched
BlankEntries(f) ==
  {i \in 1..Len(f.services) :
     f.services[i].name = "" \/ f.services[i].hourlyRate = 0
       \/ f.services[i].countryCodes = <<>>}
  \cup {i \in 1..Len(f.attributes) :
          f.attributes[i].key = "" \/ f.attributes[i].value = ""}

\* the create and update requests a step sends
SubmitsOfStep == {r \in sent' \ sent : r.op \in {"create", "update"}}

\* C12: a step sends POST /Provider/with-details or PUT /Provider/{id} only
\* with a body whose name is non-empty, whose email is well-formed, whose
\* services all have a name, an hourlyRate > 0 and at least one country
\* code, whose attributes all have key and value (and, on creation, whose
\* nit is non-empty), and only while the form has no blank entry.
C12_SubmitOnlyValid ==
  [][\A r \in SubmitsOfStep :
       LET b == r.body[1]
       IN  /\ b.name # ""
           /\ b.email \in WellFormedEmails
           /\ \A i \in 1..Len(b.services) :
                /\ b.services[i].name # ""
                /\ b.services[i].hourlyRate > 0
                /\ Len(b.services[i].countryCodes) >= 1
           /\ \A i \in 1..Len(b.attributes) :
                b.attributes[i].key # "" /\ b.attributes[i].value # ""
           /\ r.op = "create" => b.nit # ""
           /\ BlankEntries(FormOf(mounted)) = {}]_vars

\* an attribute was added to a loaded provider, filled in, and the update
\* was then sent with it
C12_Witness ==
  /\ lastOp.kind = "submitEdit"
  /\ \E r \in inflight :
       /\ r.op = "update"
       /\ Len(r.body[1].attributes) = Len(ProviderOf(providerId).customAttributes) + 1
       /\ r.body[1].attributes[Len(r.body[1].attributes)].key = "Zeta"

\* C13: right after a successful GET /Provider/{id} on the mounted edit
\* page, the form holds the provider's id, nit, name and email, one service
\* per API service in the same order with its id, name, hourlyRate and
\* country codes in order, and one attribute per API custom attribute in
\* the same order with its id, key and value.
C13_LoadMapping ==
  lastOp.kind = "fetchProvider" /\ lastOp.ok /\ lastOp.alive =>
    LET p == ProviderOf(providerId)
        f == edit.form
    IN  /\ f.id = p.id /\ f.nit = p.nit /\ f.name = p.name /\ f.email = p.email
        /\ Len(f.services) = Len(p.services)
        /\ \A i \in 1..Len(p.services) :
             /\ f.services[i].id = p.services[i].id
             /\ f.services[i].name = p.services[i].name
             /\ f.services[i].hourlyRate = p.services[i].hourlyRate
             /\ Len(f.services[i].countryCodes) = Len(p.services[i].countries)
             /\ \A j \in 1..Len(p.services[i].countries) :
                  f.services[i].countryCodes[j] = p.services[i].countries[j].countryCode
        /\ Len(f.attributes) = Len(p.customAttributes)
        /\ \A i \in 1..Len(p.customAttributes) :
             /\ f.attributes[i].id = p.customAttributes[i].id
             /\ f.attributes[i].key = p.customAttributes[i].key
             /\ f.attributes[i].value = p.customAttributes[i].value

\* the provider with two services, one of them in two countries, was loaded
C13_Witness ==
  /\ lastOp.kind = "fetchProvider" /\ lastOp.ok /\ lastOp.alive
  /\ Len(edit.form.services) = 2
  /\ Len(edit.form.services[1].countryCodes) = 2
  /\ edit.form.services[1].id # edit.form.services[2].id

\* the fields a record carries
Carries(rec, fields) == fields \subseteq DOMAIN rec

\* C14 (as stated): the body of every PUT /Provider/{id} carries the form's
\* id, nit, name and email and, for each service and attribute in form
\* order, its id with its name, hourlyRate and countryCodes resp. its key
\* and value; sent for an unedited form they are the records that were loaded.
C14_LosslessBody ==
  \A r \in sent :
    r.op = "update" =>
      LET b == r.body[1]
          p == ProviderOf(PathId(r.path))
      IN  /\ Carries(b, {"id", "nit", "name", "email", "services", "attributes"})
          /\ b.id = p.id /\ b.name = p.name /\ b.email = p.email
          /\ Len(b.services) = Len(p.services)
          /\ \A i \in 1..Len(b.services) :
               /\ Carries(b.services[i], {"id", "name", "hourlyRate", "countryCodes"})
               /\ b.services[i].name = p.services[i].name
          /\ Len(b.attributes) = Len(p.customAttributes)
          /\ \A i \in 1..Len(b.attributes) :
               /\ Carries(b.attributes[i], {"id", "key", "value"})
               /\ b.attributes[i].key = p.customAttributes[i].key

\* C15 (as stated): on a rendered provider form the services array and the
\* attributes array each have at least one entry.
C15_NeverEmpty ==
  \A pg \in FormPages :
    FormRendered(pg) =>
      Len(FormOf(pg).services) >= 1 /\ Len(FormOf(pg).attributes) >= 1

\* C15 (amended): on the new-provider form both arrays always have at least
\* one entry; on the edit form an array is empty only if the provider that
\* was loaded has no such entries, so Remove never empties an array.
C15_EmptyOnlyAsLoaded ==
  /\ mounted = "new" =>
       Len(newp.form.services) >= 1 /\ Len(newp.form.attributes) >= 1
  /\ mounted = "edit" /\ ~edit.isLoadingProvider =>
       /\ edit.form.services = <<>> => ProviderOf(providerId).services = <<>>
       /\ edit.form.attributes = <<>> => ProviderOf(providerId).customAttributes = <<>>

\* a provider loaded without services got two added and one removed again,
\* which leaves one entry and no Remove button
C15_Witness ==
  /\ lastOp.kind = "removeService"
  /\ mounted = "edit"
  /\ ProviderOf(providerId).services = <<>>
  /\ Len(edit.form.services) = 1

\* C16: a form has at most one create/update request in flight, and its
\* isLoading flag (which disables the submit button) is true exactly while
\* that request is in flight: it is set when the submit starts and cleared
\* when the request completes, with either outcome.
C16_OneSubmitOutstanding ==
  /\ Cardinality(Pending("update")) <= 1
  /\ Cardinality(Pending("create")) <= 1
  /\ mounted = "edit" => (edit.isLoading <=> Pending("update") # {})
  /\ mounted = "new" => (newp.isLoading <=> Pending("create") # {})

\* a first create request has failed and a second one is now in flight
C16_Witness ==
  /\ lastOp.kind = "submitNew"
  /\ newp.isLoading
  /\ Cardinality({r \in sent : r.op = "create"}) = 2
  /\ Cardinality(Pending("create")) = 1

\* a step that starts a submit, and a step in which onSubmit continues after
\* its await on the page that is still mounted
SubmitStarts == lastOp'.kind \in {"submitEdit", "submitNew"}
SubmitEnds == lastOp'.kind \in {"editOnSubmit", "newOnSubmit"} /\ lastOp'.alive

\* C17 (as stated): a submit clears the error; a successful request sets
\* the route to /providers and leaves the error empty; a failed request
\* leaves route and form as they were and sets a non-empty error.
C17_SubmitOutcome ==
  [][/\ SubmitStarts => PageError' = ""
     /\ SubmitEnds /\ lastOp'.ok => location' = "/providers" /\ PageError' = ""
     /\ SubmitEnds /\ ~lastOp'.ok =>
          /\ location' = location /\ hardNav' = hardNav
          /\ FormOf(mounted)' = FormOf(mounted)
          /\ PageError' # ""]_vars

\* C17 (amended): as stated, except that a request failing with status 401
\* does navigate: the response interceptor assigns window.location.href =
\* '/login' before onSubmit's catch sets the error.  No failure sets the
\* route to /providers.
C17_SubmitOutcomeOr401 ==
  [][/\ SubmitStarts => PageError' = ""
     /\ SubmitEnds /\ lastOp'.ok => location' = "/providers" /\ PageError' = ""
     /\ SubmitEnds /\ ~lastOp'.ok =>
          /\ IF lastOp'.status = 401
             THEN location' = "/login" /\ hardNav'
             ELSE location' = location /\ hardNav' = hardNav
          /\ FormOf(mounted)' = FormOf(mounted)
          /\ PageError' # ""]_vars

\* an update failed with the server's message, the form was submitted again,
\* which cleared the message, and this time the request succeeded
C17_Witness ==
  /\ lastOp.kind = "editOnSubmit" /\ lastOp.ok /\ lastOp.alive
  /\ Cardinality({r \in sent : r.op = "update"}) = 2
  /\ location = "/providers"
  /\ edit.error = ""

\* what POST /Auth/login is answered with
LoginResults == {Ok(<<[token |-> t]>>) : t \in LoginTokens} \cup FetchFailures

\* C18 (as stated): after authService.login, auth_token equals the
\* response's token if the request succeeded with a non-empty token;
\* otherwise storage is exactly what it was before the response.
C18_LoginStoresOrKeeps ==
  [][\A r \in inflight : \A res \in LoginResults :
       LoginResponse(r, res) =>
         IF res.ok /\ Truthy(res.data[1].token)
         THEN getItem(storage', AuthTokenKey) = res.data[1].token
         ELSE storage' = storage]_vars

\* C18 (amended): as stated, except that a login answered with status 401
\* leaves no auth_token in storage: the response interceptor removes it
\* before login's caller sees the error.
C18_LoginStoresOr401 ==
  [][\A r \in inflight : \A res \in LoginResults :
       LoginResponse(r, res) =>
         IF res.ok /\ Truthy(res.data[1].token)
         THEN getItem(storage', AuthTokenKey) = res.data[1].token
         ELSE IF ~res.ok /\ res.status = 401
         THEN getItem(storage', AuthTokenKey) = Null
         ELSE storage' = storage]_vars

\* a login sent while a token was stored has been answered with 401, and
\* the token is gone
C18_Witness ==
  /\ lastOp.kind = "login" /\ ~lastOp.ok /\ lastOp.status = 401
  /\ \E r \in sent : r.rid = lastOp.rid /\ r.op = "login" /\ Truthy(r.stored)
  /\ lastTokenEvent = "401"
  /\ getItem(storage, AuthTokenKey) = Null

\* C19: AuthGuard renders its children only after its isAuthenticated()
\* check returned true; a guard whose check found no token has requested
\* /login and keeps showing 'Checking authentication...' for as long as it
\* is mounted, whatever is stored later.
C19_GuardHidesContent ==
  /\ ChildrenRendered => guard.checked = "true"
  /\ guard.phase = "rendered" => guard.isLoading /\ guard.checked = "none"
  /\ guard.checked = "false" =>
       /\ guard.isLoading
       /\ location = "/login"

\* a guard that found no token is still mounted and still checking although
\* a login has stored a token since
C19_Witness ==
  /\ guard.checked = "false"
  /\ guard.isLoading
  /\ isAuthenticated
  /\ lastOp.kind = "login" /\ lastOp.ok

\* C20 (as stated): on a rendered form no service lists a country code
\* twice, and on the edit form no two codes of a service are equal after
\* trimming whitespace.
C20_NoDuplicateCodes ==
  \A pg \in FormPages :
    FormRendered(pg) =>
      \A i \in 1..Len(FormOf(pg).services) :
        LET codes == FormOf(pg).services[i].countryCodes
        IN  \A a, b \in 1..Len(codes) :
              a # b =>
                /\ codes[a] # codes[b]
                /\ pg = "edit" => trim(codes[a]) # trim(codes[b])

\* the countries of a sequence
Elements(arr) == {arr[j] : j \in 1..Len(arr)}

\* the options picker `index` of the rendered form must offer: every loaded
\* country that is not selected and whose name contains the search term,
\* letter case aside (every such country when the term is empty)
ExpectedOptions(pg, index) ==
  {country \in Elements(CountriesOf(pg)) :
     /\ country.code \notin Elements(FormOf(pg).services[index].countryCodes)
     /\ \/ TermsOf(pg)[index] = <<>>
        \/ Contains(toLowerCase(Chars(country.name)), toLowerCase(TermsOf(pg)[index]))}

OptionsAsExpected ==
  \A pg \in FormPages :
    PickerRendered(pg) =>
      \A index \in 1..Len(FormOf(pg).services) :
        Elements(OfferedOptions(pg, index)) = ExpectedOptions(pg, index)

\* C21: in every state each picker offers exactly the loaded,
\* not yet selected countries whose name contains its search term
\* case-insensitively (all of them for an empty term); a step that changes
\* a search term leaves the form, and so every countryCodes, unchanged; and
\* a select step adds a country that was offered.
C21_SearchFilters ==
  /\ []OptionsAsExpected
  /\ [][/\ lastOp'.kind = "setSearchTerm" => FormOf(mounted)' = FormOf(mounted)
        /\ lastOp'.kind = "selectCountry" =>
             \E country \in ExpectedOptions(mounted, lastOp'.index) :
               FormOf(mounted)'.services[lastOp'.index].countryCodes
                 = Append(FormOf(mounted).services[lastOp'.index].countryCodes,
                          country.code)]_vars

\* 'ST' was typed into a picker, which then offered United States only, and
\* United States was selected
C21_Witness ==
  /\ lastOp.kind = "selectCountry"
  /\ TermsOf(mounted)[lastOp.index] = <<"S", "T">>
  /\ LET codes == FormOf(mounted).services[lastOp.index].countryCodes
     IN  codes # <<>> /\ codes[Len(codes)] = US

\* what SummaryPage returns: the spinner, the error box or the dashboard
SummaryView ==
  IF summary.isLoading THEN "spinner"
  ELSE IF Truthy(summary.error) THEN "error"
  ELSE "dashboard"

\* C22: a summary page's GET /Country is sent only once the GET /Summary of
\* the same mount has been answered, and on the mounted page only with the
\* summary data stored; after either request failed the page shows the
\* error box, also when the summary data was received; the dashboard is
\* shown only with both answers stored and nothing of the page in flight.
C22_SummaryFetchOrder ==
  /\ \A rc \in sent :
       rc.page = "summary" /\ rc.op = "country" =>
         /\ \E rs \in sent \ inflight :
              rs.op = "summary" /\ rs.trigger = rc.trigger /\ rs.rid < rc.rid
         /\ Alive(rc) => summary.summaryData = <<SummaryResponse>>
  /\ mounted = "summary" =>
       /\ FailedCall("fetchDataSummary") \/ FailedCall("fetchDataCountry")
            => SummaryView = "error"
       /\ Truthy(summary.error) => SummaryView = "error"
       /\ SummaryView = "dashboard" =>
            /\ summary.summaryData = <<SummaryResponse>>
            /\ summary.countries = CountryList
            /\ Pending("summary") \cup Pending("country") = {}
            /\ \E rc \in sent : rc.op = "country" /\ rc.page = "summary" /\ rc.inst = inst

\* GET /Summary succeeded, GET /Country failed: the data is there, the error
\* box is what is shown
C22_Witness ==
  /\ FailedCall("fetchDataCountry")
  /\ mounted = "summary"
  /\ summary.summaryData = <<SummaryResponse>>
  /\ SummaryView = "error"

\* a step in which the answer to a request reached its caller
Answered == lastOp'.rid # 0 /\ lastOp'.rid # lastOp.rid

\* C23: when a request sent through the api client (login included) is
\* answered with status 401, auth_token is removed, the location becomes
\* /login by a full page load, and the caller still sees the failure; when
\* a request fails in any other way, storage and location stay as they were.
C23_UnauthorizedHandling ==
  [][Answered /\ ~lastOp'.ok =>
       /\ lastOp'.rid \in {r.rid : r \in inflight \ inflight'}
       /\ IF lastOp'.status = 401
          THEN /\ storage' = removeItem(storage, AuthTokenKey)
               /\ getItem(storage', AuthTokenKey) = Null
               /\ location' = "/login" /\ hardNav'
               /\ lastTokenEvent' = "401"
          ELSE /\ storage' = storage
               /\ location' = location /\ hardNav' = hardNav
               /\ lastTokenEvent' = lastTokenEvent]_vars

\* a signed-in user's provider list request was answered with 401: the
\* token is gone, the browser loads /login and the list stays empty
C23_Witness ==
  /\ lastOp.kind = "fetchProviders" /\ ~lastOp.ok /\ lastOp.status = 401
  /\ \E r \in sent : r.rid = lastOp.rid /\ r.auth # NoHeader /\ Truthy(r.stored)
  /\ getItem(storage, AuthTokenKey) = Null
  /\ location = "/login" /\ hardNav
  /\ providers.providerData.items = <<>>

\* the list page is past its `if (isLoading) return spinner`
ListShown == mounted = "providers" /\ ~providers.isLoading

\* C24 (as stated): whenever the providers list is displayed, the page it
\* holds is the page that was requested: providerData.pageNumber equals
\* currentPage.
C24_ShownPageIsCurrent ==
  ListShown => providers.providerData.pageNumber = providers.currentPage

\* the GET /Provider requests of the mounted list page still in flight
ListRequests == {r \in Pending("providerList") : r.page = "providers"}

\* C25 (as stated): a page change of the providers list happens only while
\* none of its provider-list requests is outstanding, at most one GET
\* /Provider of the page is in flight, and currentPage stays within
\* 1..totalPages.
C25_PageChangeGuarded ==
  mounted = "providers" =>
    /\ lastOp.kind = "pageChange" =>
         ListRequests = SentBy(Len(triggers), "providerList")
    /\ Cardinality(ListRequests) <= 1
    /\ providers.currentPage \in 1..providers.providerData.totalPages

\* the request whose answer the last completion delivered
AnsweredRequest == CHOOSE r \in sent : r.rid = lastOp'.rid

\* C26: the two completions of a list page load commute: the answer to GET
\* /Provider decides providerData and isLoading from its own outcome alone
\* and leaves countries and isLoadingCountries as they are, the answer to
\* GET /Country does the converse, so the state after both is the same in
\* either order; and the list is visible as soon as GET /Provider is
\* answered, whatever the state of the countries.
C26_OrderIndependent ==
  [][/\ Answered /\ lastOp'.kind = "fetchProviders" =>
          /\ providers'.countries = providers.countries
          /\ providers'.isLoadingCountries = providers.isLoadingCountries
          /\ providers'.currentPage = providers.currentPage
          /\ lastOp'.alive =>
               /\ ListShown'
               /\ providers'.providerData =
                    IF lastOp'.ok
                    THEN ProviderPage(AnsweredRequest.params[1].pageNumber)
                    ELSE providers.providerData
          /\ ~lastOp'.alive => providers' = providers
     /\ Answered /\ lastOp'.kind = "providersFetchCountries" =>
          /\ providers'.providerData = providers.providerData
          /\ providers'.isLoading = providers.isLoading
          /\ providers'.currentPage = providers.currentPage
          /\ lastOp'.alive =>
               /\ ~providers'.isLoadingCountries
               /\ providers'.countries =
                    IF lastOp'.ok THEN CountryList ELSE providers.countries
          /\ ~lastOp'.alive => providers' = providers]_vars

\* GET /Provider was answered first: the list is shown with its providers
\* while GET /Country of the same load is still in flight
C26_Witness ==
  /\ lastOp.kind = "fetchProviders" /\ lastOp.ok /\ lastOp.alive
  /\ ListShown
  /\ providers.providerData.items # <<>>
  /\ providers.isLoadingCountries /\ providers.countries = <<>>
  /\ \E r \in Pending("country") : r.trigger = Len(triggers)

\* the PUT requests the mounted edit page has sent
UpdatesSent == {r \in sent : r.op = "update" /\ r.page = "edit" /\ r.inst = inst}

\* reset(formData) has filled the form of the mounted edit page: only it
\* gives the form an id
ProviderLoaded == mounted = "edit" /\ edit.form.id = providerId

\* C27 (as stated): the edit page sends a PUT /Provider/{id} only after GET
\* /Provider/{id} succeeded and filled the form; after a failed load no
\* user action leads to a PUT.
C27_UpdateOnlyLoaded ==
  mounted = "edit" /\ UpdatesSent # {} => ProviderLoaded

\* C28: from the mount of the edit page until its GET /Provider/{id} is
\* answered the form is not rendered and still holds its defaults, whether
\* or not GET /Country has been answered, so reset(formData) never lands on
\* a form the user has touched.
C28_ResetBeforeEdits ==
  mounted = "edit" /\ Pending("provider") # {} =>
    /\ edit.isLoadingProvider
    /\ ~FormRendered("edit")
    /\ edit.form = InitEdit.form
    /\ edit.searchTerm = InitEdit.searchTerm
    /\ UpdatesSent = {}

\* the provider was loaded and the user then changed the form, with the
\* page's GET /Country still unanswered
C28_Witness ==
  /\ ProviderLoaded
  /\ lastOp.kind \in {"inputProvider", "appendAttribute", "removeService"}
  /\ edit.form # FormData(ProviderOf(providerId))
  /\ Pending("country") # {}

\* the countries whose code equals `code` ignoring case and the whitespace
\* around `code`
Matching(countries, code) ==
  {i \in 1..Len(countries) :
     toUpperCase(countries[i].code) = toUpperCase(trim(code))}

\* C29 (as stated): the getCountryName of the summary page and that of the
\* providers list return the same for every country list and code: the name
\* of the country whose code matches ignoring case and surrounding
\* whitespace, otherwise the code exactly as given.
C29_HelpersEquivalent ==
  lastOp.kind = "renderCountryName" =>
    /\ chart.summary = chart.providers
    /\ \A name \in Elements(chart.summary) :
         IF Matching(summary.countries, chart.code) = {}
         THEN name = chart.code
         ELSE \E i \in Matching(summary.countries, chart.code) :
                name = summary.countries[i].name

====
